---------------------------- MODULE Spec2Model ----------------------------
(***************************************************************************)
(* Hair Factory preset store (src/preset_util.py): content hashing, the    *)
(* HDF5 record tables kept inside Presets.zip, the save / rename / export  *)
(* / import functions and the modify_in_zip wrapper.                       *)
(***************************************************************************)
EXTENDS Integers, Sequences, FiniteSets, TLC

VARIABLES
    archive,   \* content of Presets.hfdb as stored inside Presets.zip
    other,     \* the same for a second installation
    log,       \* the operations run so far: arguments and outcome of each
    docs,      \* export documents written to disk (json files)
    hin,       \* input pair of the hashing check
    hout,      \* digests computed from hin
    zipdisk,       \* Presets.zip as it lies on disk: its entries, readable or not
    extract_file,  \* the file extracted beside the archive, or Absent
    calls,         \* the modify_in_zip invocations: position and locals of each
    scene,         \* the active object: its modifier stack and the active modifier
    addon          \* the add-on preferences and the archives in the preset folders

zipvars == <<zipdisk, extract_file, calls>>
vars == <<archive, other, log, docs, hin, hout, zipdisk, extract_file, calls, scene, addon>>

(***************************************************************************)
(* ConfigValue: a tagged value.  Scalars keep their JSON text in v, lists  *)
(* and tuples keep a sequence of values, a dict keeps its items as a       *)
(* sequence of <<key, value>> in insertion order.                          *)
(***************************************************************************)
PyInt(n) == [t |-> "int", v |-> ToString(n)]
PyStr(s) == [t |-> "str", v |-> s]
PyBool(b) == [t |-> "bool", v |-> IF b THEN "true" ELSE "false"]
PyList(s) == [t |-> "list", v |-> s]
PyTuple(s) == [t |-> "tuple", v |-> s]
NdArray(s) == [t |-> "ndarray", v |-> s]
PyDict(items) == [t |-> "dict", v |-> items]
NoneValue == [t |-> "none", v |-> "null"]

IsDict(x) == x.t = "dict"

Keys(d) == {d.v[i][1] : i \in DOMAIN d.v}
HasKey(d, k) == k \in Keys(d)
Get(d, k) == (CHOOSE i \in DOMAIN d.v : d.v[i][1] = k) (* d[k] *)
GetV(d, k) == d.v[Get(d, k)][2]

\* d[k] = val on a python dict: replaces in place or appends at the end
SetItem(d, k, val) ==
    IF HasKey(d, k)
    THEN PyDict([i \in DOMAIN d.v |-> IF d.v[i][1] = k THEN <<k, val>> ELSE d.v[i]])
    ELSE PyDict(Append(d.v, <<k, val>>))

\* Code-point order of the key strings that occur in the model
KeyOrder == <<"Base Color", "CURVE_FLOAT", "CURVE_RGB", "CURVE_VEC",
              "INPUT_COLOR", "RGB", "Roughness", "Socket_0", "Socket_1",
              "Socket_2", "VALTORGB", "a", "absorption", "attr", "b", "c",
              "color", "color_mode", "damping", "data", "distribution",
              "factor", "friction", "handle_type", "indices", "inputs",
              "interpolation", "links", "location", "mass", "name",
              "node", "points", "position", "sizes", "type", "types",
              "use_clip", "value">>
KeyRank(k) == CHOOSE i \in DOMAIN KeyOrder : KeyOrder[i] = k

RECURSIVE SortItems(_)
SortItems(items) ==
    IF items = <<>> THEN <<>>
    ELSE LET m == CHOOSE i \in DOMAIN items :
                     \A j \in DOMAIN items : KeyRank(items[i][1]) <= KeyRank(items[j][1])
             rest == [j \in 1..(Len(items) - 1) |-> IF j < m THEN items[j] ELSE items[j + 1]]
         IN <<items[m]>> \o SortItems(rest)

RECURSIVE JoinStr(_, _)
JoinStr(strs, sep) ==
    IF strs = <<>> THEN ""
    ELSE IF Len(strs) = 1 THEN strs[1]
    ELSE strs[1] \o sep \o JoinStr(Tail(strs), sep)

\* json.dumps(value, sort_keys=sort_keys): tuples and lists both become arrays
RECURSIVE dumps(_, _)
dumps(x, sort_keys) ==
    CASE x.t = "str" -> "\"" \o x.v \o "\""
      [] x.t \in {"int", "float", "bool", "none"} -> x.v
      [] x.t \in {"list", "tuple"} ->
            "[" \o JoinStr([i \in DOMAIN x.v |-> dumps(x.v[i], sort_keys)], ", ") \o "]"
      [] x.t = "dict" ->
            LET items == IF sort_keys THEN SortItems(x.v) ELSE x.v
            IN "{" \o JoinStr([i \in DOMAIN items |->
                        "\"" \o items[i][1] \o "\": " \o dumps(items[i][2], sort_keys)], ", ") \o "}"
      [] OTHER -> "TypeError"

\* ndarray.tolist()
RECURSIVE tolist(_)
tolist(x) ==
    IF x.t = "ndarray" THEN PyList([i \in DOMAIN x.v |-> tolist(x.v[i])]) ELSE x

RECURSIVE immutable_dict(_)
immutable_dict(data_dict) ==
    PyDict([i \in DOMAIN data_dict.v |->
        LET k == data_dict.v[i][1]
            v == data_dict.v[i][2]
        IN CASE v.t = "dict" -> <<k, immutable_dict(v)>>
             [] v.t = "list" -> <<k, PyTuple(v.v)>>
             [] v.t = "ndarray" -> <<k, PyTuple(tolist(v).v)>>
             [] OTHER -> <<k, v>>])

\* hashlib.sha256(bytes).hexdigest(): a digest is identified with the byte
\* string it was computed from (no two byte strings share a digest)
sha256(bytes) == "sha256(" \o bytes \o ")"

hash_dict_unsorted(data_dict) == sha256(dumps(immutable_dict(data_dict), FALSE))
hash_dict(data_dict) == sha256(dumps(immutable_dict(data_dict), TRUE))

hash_list(data_list) == sha256(dumps(PyTuple(data_list.v), FALSE))

\* json.loads(json.dumps(value)): what a stored blob reads back as
RECURSIVE loads_dumps(_)
loads_dumps(x) ==
    CASE x.t \in {"list", "tuple"} -> PyList([i \in DOMAIN x.v |-> loads_dumps(x.v[i])])
      [] x.t = "dict" -> PyDict([i \in DOMAIN x.v |-> <<x.v[i][1], loads_dumps(x.v[i][2])>>])
      [] OTHER -> x


(***************************************************************************)
(* Display names.  A name is the sequence of its '.'-separated parts, so   *)
(* "Foo.001" is <<"Foo", "001">> and name.split('.') is the name itself.   *)
(***************************************************************************)
MaxSeries == 3          \* series numbers whose text int() is asked to parse

\* str(n).zfill(3)
zfill3(n) ==
    IF n < 10 THEN "00" \o ToString(n)
    ELSE IF n < 100 THEN "0" \o ToString(n) ELSE ToString(n)

\* int(text): the number, or ValueError for text that is not a numeral
ValueError == -1
py_int(text) ==
    IF \E n \in 0..(MaxSeries + 2) : text \in {zfill3(n), ToString(n)}
    THEN CHOOSE n \in 0..(MaxSeries + 2) : text \in {zfill3(n), ToString(n)}
    ELSE ValueError

NoName == <<"None">>    \* attrs.get('name') of a dataset without the attribute

\* get_max_series_num: data is the collection of names of a table
SeriesOf(name, data) ==
    {n \in data : n # NoName /\ n[1] = name[1] /\ Len(n) > 1}
get_max_series_num(name, data) ==
    IF \E n \in SeriesOf(name, data) : py_int(n[2]) = ValueError THEN ValueError
    ELSE LET nums == {py_int(n[2]) : n \in SeriesOf(name, data)} \cup {0}
         IN CHOOSE m \in nums : \A k \in nums : k <= m

RaisedValueError == <<"ValueError">>
\* the suffixed name, or RaisedValueError when get_max_series_num raised
get_match_series_highest(name, data) ==
    LET ms == get_max_series_num(name, data)
    IN IF ms = ValueError THEN RaisedValueError ELSE <<name[1], zfill3(ms + 1)>>


(***************************************************************************)
(* The live scene: node trees, their nodes and links.                      *)
(*   tree: [key, name, nodes, links, items]   (key: the datablock)         *)
(*   node: [type, name, node_tree, state, attr, inputs]                    *)
(*   link: [from_node, to_node, from_socket, to_socket] (node indices,     *)
(*         counted from 0 as in the source)                                *)
(***************************************************************************)
NoTree == [key |-> "", name |-> "", nodes |-> <<>>, links |-> <<>>, items |-> <<>>]
Node(type, name) ==
    [type |-> type, name |-> name, node_tree |-> NoTree, state |-> NoneValue,
     attr |-> <<>>, inputs |-> <<>>]
Link(fn, tn, fs, ts) ==
    [from_node |-> fn, to_node |-> tn, from_socket |-> fs, to_socket |-> ts]

\* python index i of a sequence
At(seq, i) == seq[i + 1]
PathV(p) == PyList([i \in DOMAIN p |-> PyInt(p[i])])
IntOfText(text) == CHOOSE n \in 0..9 : ToString(n) = text
PathOf(pv) == [i \in DOMAIN pv.v |-> IntOfText(pv.v[i].v)]

\* node_scan: depth-first list of [index, node, type] for every node
RECURSIVE node_scan_from(_, _, _)
node_scan_from(node_group, index, i) ==
    IF i >= Len(node_group.nodes) THEN <<>>
    ELSE LET idx == Append(index, i)
             node == At(node_group.nodes, i)
             entry == [index |-> idx, node |-> <<node_group.key, i>>, type |-> node.type]
             below == IF node.type = "GROUP"
                      THEN node_scan_from(node.node_tree, idx, 0) ELSE <<>>
         IN <<entry>> \o below \o node_scan_from(node_group, index, i + 1)
node_scan(node_group) == node_scan_from(node_group, <<>>, 0)

\* the index fn / tn that the loop over node_dict['nodes'] ends with
LastMatch(entries, node) ==
    LET hits == {i \in DOMAIN entries : entries[i].node = node}
    IN CHOOSE i \in hits : \A j \in hits : j <= i

RECURSIVE GroupLinks(_, _, _)
\* node_link_scan: [from index, to index] of every link, nested trees after
node_link_scan(node_group, entries) ==
    [k \in DOMAIN node_group.links |->
        LET l == node_group.links[k]
            fn == LastMatch(entries, <<node_group.key, l.from_node>>)
            tn == LastMatch(entries, <<node_group.key, l.to_node>>)
        IN PyList(<<PathV(entries[fn].index), PathV(entries[tn].index)>>)]
      \o GroupLinks(node_group, entries, 0)
GroupLinks(node_group, entries, i) ==
    IF i >= Len(node_group.nodes) THEN <<>>
    ELSE (IF At(node_group.nodes, i).type = "GROUP"
          THEN node_link_scan(At(node_group.nodes, i).node_tree, entries) ELSE <<>>)
         \o GroupLinks(node_group, entries, i + 1)

get_all_nodes(node_group) ==
    LET entries == node_scan(node_group)
    IN PyDict(<< <<"indices", PyList([i \in DOMAIN entries |-> PyList(<<PathV(entries[i].index)>>)])>>,
                 <<"types", PyList([i \in DOMAIN entries |-> PyStr(entries[i].type)])>>,
                 <<"links", PyList(node_link_scan(node_group, entries))>> >>)

\* get_node_structure_list: addresses of the nodes of type ntype
RECURSIVE get_node_structure_list(_, _, _, _)
get_node_structure_list(nodes, ntype, parent, i) ==
    IF i >= Len(nodes) THEN <<>>
    ELSE LET node == At(nodes, i)
             data == Append(parent, i)
         IN (IF node.type = ntype THEN <<PathV(data)>> ELSE <<>>)
            \o (IF node.type = "GROUP"
                THEN get_node_structure_list(node.node_tree.nodes, ntype, data, 0) ELSE <<>>)
            \o get_node_structure_list(nodes, ntype, parent, i + 1)

slice_dict(classification) ==
    IF classification = "Geometry_Node"
    THEN <<"CURVE_FLOAT", "VALTORGB", "CURVE_VEC", "CURVE_RGB", "INPUT_COLOR">>
    ELSE <<"RGB", "CURVE_FLOAT", "VALTORGB", "CURVE_VEC", "CURVE_RGB">>

RECURSIVE DropEmpty(_)
DropEmpty(items) ==
    IF items = <<>> THEN <<>>
    ELSE (IF Len(Head(items)[2].v) > 0 THEN <<Head(items)>> ELSE <<>>) \o DropEmpty(Tail(items))

node_type_dict(node_group, classification) ==
    LET types == slice_dict(classification)
    IN PyDict(DropEmpty([k \in DOMAIN types |->
                <<types[k], PyList(get_node_structure_list(node_group.nodes, types[k], <<>>, 0))>>]))


(***************************************************************************)
(* Special nodes: the get_* codecs read the live node into a dict.         *)
(* Floats are kept as their JSON text.                                     *)
(***************************************************************************)
PyFloat(text) == [t |-> "float", v |-> text]
Floats(seq) == PyList([i \in DOMAIN seq |-> PyFloat(seq[i])])

\* get_float_curve_data: the clip bounds, levels, tone and extend of the
\* mapping, which no scene of this model changes, are left out of the dict
get_float_curve_data(float_curve) ==
    LET st == float_curve.state
    IN PyDict(<< <<"location", PyList([i \in DOMAIN st.points |-> Floats(st.points[i].location)])>>,
                 <<"handle_type", PyList([i \in DOMAIN st.points |-> PyStr(st.points[i].handle_type)])>>,
                 <<"use_clip", PyBool(st.use_clip)>>,
                 <<"factor", PyFloat(st.factor)>>,
                 <<"value", PyFloat(st.value)>> >>)

get_color_ramp_data(color_ramp) ==
    LET st == color_ramp.state
    IN PyDict(<< <<"color", PyList([i \in DOMAIN st.elements |-> Floats(st.elements[i].color)])>>,
                 <<"position", PyList([i \in DOMAIN st.elements |-> PyFloat(st.elements[i].position)])>>,
                 <<"color_mode", PyStr(st.color_mode)>>,
                 <<"interpolation", PyStr(IF st.color_mode = "RGB" THEN st.interpolation
                                                                    ELSE st.hue_interpolation)>>,
                 <<"factor", PyFloat(st.factor)>> >>)

get_input_color_data(rgb_color) == PyDict(<< <<"value", Floats(rgb_color.state.value)>> >>)
get_rgb_color_data(rgb_color) == PyDict(<< <<"color", Floats(rgb_color.state.color)>> >>)

\* get_nodes_func_dict()[node_type](node)
get_nodes_func(node_type, node) ==
    CASE node_type = "CURVE_FLOAT" -> get_float_curve_data(node)
      [] node_type = "VALTORGB" -> get_color_ramp_data(node)
      [] node_type = "INPUT_COLOR" -> get_input_color_data(node)
      [] node_type = "RGB" -> get_rgb_color_data(node)

node_type_abbr_dict(node_type) ==
    CASE node_type = "RGB" -> "RB"
      [] node_type = "CURVE_FLOAT" -> "FC"
      [] node_type = "VALTORGB" -> "CR"
      [] node_type = "CURVE_VEC" -> "VC"
      [] node_type = "CURVE_RGB" -> "RC"
      [] node_type = "INPUT_COLOR" -> "IC"

NodeTypes == {"RGB", "CURVE_FLOAT", "VALTORGB", "CURVE_VEC", "CURVE_RGB", "INPUT_COLOR"}

\* get_groups_str / get_mat_str: the address is formatted into
\* nodes['<i>'] lookups, which look a node up by NAME; the node reached,
\* or KeyError when a tree on the way has no node of that name
KeyError == Node("KeyError", "KeyError")
NodeByName(node_tree, name) ==
    IF \E i \in DOMAIN node_tree.nodes : node_tree.nodes[i].name = name
    THEN node_tree.nodes[CHOOSE i \in DOMAIN node_tree.nodes : node_tree.nodes[i].name = name]
    ELSE KeyError
RECURSIVE get_node_group_groups(_, _)
get_node_group_groups(node_tree, groups) ==
    LET node == NodeByName(node_tree, ToString(Head(groups)))
    IN IF node.type = "KeyError" \/ Len(groups) = 1 THEN node
       ELSE get_node_group_groups(node.node_tree, Tail(groups))

\* the node a save or load reads for an address of node_type_dict
NodeAtAddress(node_tree, addr) ==
    IF Len(addr) = 1 THEN At(node_tree.nodes, addr[1])
    ELSE get_node_group_groups(node_tree, addr)


(***************************************************************************)
(* Presets.hfdb: groups are tables (id -> dataset); a dataset has its data *)
(* and its attributes.  create_preset_files builds the empty layout.       *)
(***************************************************************************)
EmptyTable == [id \in {} |-> 0]
Classes == {"MATERIALS", "GEOMETRY_NODES"}
PhysicsTypes == {"CLOTH", "SOFT_BODY", "COLLISION"}

create_preset_files ==
    [PRESETS |-> [c \in Classes |->
                    [DATA |-> EmptyTable, INFO |-> EmptyTable, TRANSACTIONS |-> EmptyTable,
                     FULL |-> EmptyTable, VALUES |-> EmptyTable]],
     MODIFIER_STACK |-> EmptyTable,
     KIND |-> [nt \in NodeTypes |-> <<>>],     \* /PRESETS/{node type}
     NODES |-> EmptyTable,
     NODE_STACK |-> EmptyTable,
     PHYSICS |-> [p \in PhysicsTypes |-> EmptyTable],
     POINTS |-> EmptyTable,
     SIZES |-> EmptyTable]

\* group.create_dataset(id, data=...) followed by the attribute writes
Put(table, id, dataset) == (id :> dataset) @@ table
\* get_names(pfile)
get_names(pfile) == {pfile[id].name : id \in DOMAIN pfile}
InSeq(x, seq) == \E i \in DOMAIN seq : seq[i] = x
AppendAlways(seq, id) == Append(seq, id)
\* dataset[-1:] = [id] without the resize before it
AppendOverLast(seq, id) ==
    IF InSeq(id, seq) THEN seq
    ELSE IF seq = <<>> THEN <<id>> ELSE [seq EXCEPT ![Len(seq)] = id]
\* dataset.resize(+1); dataset[-1:] = [id]   when id is not listed yet
AppendNew(seq, id) == IF InSeq(id, seq) THEN seq ELSE Append(seq, id)


(***************************************************************************)
(* Outcome of a function run on the extracted file: the exception it       *)
(* raised ("" for none), the value it returned, the file as it left it.    *)
(***************************************************************************)
NoReturn == [preset_saved |-> FALSE, pname |-> NoName, id |-> ""]
Raise(exc, file) == [exc |-> exc, ret |-> NoReturn, file |-> file]
Return(saved, pname, id, file) ==
    [exc |-> "", ret |-> [preset_saved |-> saved, pname |-> pname, id |-> id], file |-> file]

\* The NODES loop of the three save functions, for the nodes of one type:
\* one step per address of ntd_[node_type], from address number k on.
RECURSIVE save_nodes_of_type(_, _, _, _, _, _, _)
save_nodes_of_type(file, node_tree, node_type, addrs, k, ct, nis) ==
    IF k > Len(addrs) THEN [exc |-> "", file |-> file, nis |-> nis]
    ELSE
    LET node == NodeAtAddress(node_tree, PathOf(addrs[k]))
    IN IF node.type = "KeyError" THEN [exc |-> "KeyError", file |-> file, nis |-> nis]
       ELSE
       LET data == get_nodes_func(node_type, node)
           nid == hash_dict(data)
           isnew == nid \notin DOMAIN file.NODES
           created == [file EXCEPT !.NODES = Put(@, nid,
                          [data |-> loads_dumps(data), name |-> NoName, type |-> ""])]
           first == <<node_type_abbr_dict(node_type) \o "_" \o ToString(ct)>>
           suggested_name == IF first \in get_names(created.NODES)
                             THEN get_match_series_highest(first, get_names(created.NODES))
                             ELSE first
           named == [created EXCEPT !.NODES[nid].name = suggested_name,
                                    !.NODES[nid].type = node_type]
           file1 == IF isnew THEN named ELSE file
           file2 == [file1 EXCEPT !.KIND[node_type] = AppendNew(@, nid)]
       IN IF isnew /\ suggested_name = RaisedValueError
          THEN [exc |-> "ValueError", file |-> created, nis |-> nis]
          ELSE save_nodes_of_type(file2, node_tree, node_type, addrs, k + 1,
                                  IF isnew THEN ct + 1 ELSE ct, Append(nis, PyStr(nid)))

\* save_nodes with the NodeRecords listed and not stored
RECURSIVE save_nodes_unstored(_, _, _, _, _)
save_nodes_unstored(file, node_tree, ntd, t, node_ids) ==
    IF t > Len(ntd.v) THEN [exc |-> "", file |-> file, node_ids |-> node_ids]
    ELSE
    LET node_type == ntd.v[t][1]
        r == save_nodes_of_type(file, node_tree, node_type, ntd.v[t][2].v, 1,
                                Len(file.KIND[node_type]), <<>>)
    IN IF r.exc # "" THEN [exc |-> r.exc, file |-> r.file, node_ids |-> node_ids]
       ELSE save_nodes_unstored(file, node_tree, ntd, t + 1,
                                SetItem(node_ids, node_type, PyList(r.nis)))

\* for node_type in ntd_: ... node_ids.update(nis)
RECURSIVE save_nodes(_, _, _, _, _)
save_nodes(file, node_tree, ntd, t, node_ids) ==
    IF t > Len(ntd.v) THEN [exc |-> "", file |-> file, node_ids |-> node_ids]
    ELSE
    LET node_type == ntd.v[t][1]
        r == save_nodes_of_type(file, node_tree, node_type, ntd.v[t][2].v, 1,
                                Len(file.KIND[node_type]), <<>>)
    IN IF r.exc # "" THEN [exc |-> r.exc, file |-> r.file, node_ids |-> node_ids]
       ELSE save_nodes(r.file, node_tree, ntd, t + 1,
                       SetItem(node_ids, node_type, PyList(r.nis)))

\* The DATA step of the save functions: the ValuesRecord is created when its
\* id is not in DATA, and named after the preset, or after the next name of
\* the series when that name is in use in DATA
name_values_record(f2a, cls, values_id, values_name) ==
    IF values_name = RaisedValueError THEN [exc |-> "ValueError", file |-> f2a]
    ELSE [exc |-> "",
          file |-> [f2a EXCEPT !.PRESETS[cls].DATA[values_id].name = values_name]]
create_values_record(f2a, cls, values_id, preset_name) ==
    name_values_record(f2a, cls, values_id,
                       IF preset_name \in get_names(f2a.PRESETS[cls].DATA)
                       THEN get_match_series_highest(preset_name,
                                                     get_names(f2a.PRESETS[cls].DATA))
                       ELSE preset_name)
\* the step with the name written outside the test of the id
values_record_renamed(f1, cls, node_values, values_id, preset_name) ==
    IF values_id \in DOMAIN f1.PRESETS[cls].DATA
    THEN name_values_record(f1, cls, values_id, preset_name)
    ELSE create_values_record([f1 EXCEPT !.PRESETS[cls].DATA = Put(@, values_id,
                                  [data |-> loads_dumps(node_values), name |-> NoName])],
                              cls, values_id, preset_name)
values_record(f1, cls, node_values, values_id, preset_name) ==
    IF values_id \in DOMAIN f1.PRESETS[cls].DATA THEN [exc |-> "", file |-> f1]
    ELSE create_values_record([f1 EXCEPT !.PRESETS[cls].DATA = Put(@, values_id,
                                  [data |-> loads_dumps(node_values), name |-> NoName])],
                              cls, values_id, preset_name)

\* The body that material_preset_processing, geometry_node_preset_processing
\* and geometry_node_processing share once the name policy has been applied:
\* INFO, DATA, NODES, NODE_STACK, TRANSACTIONS and the two link tables.
ClassName(cls) == IF cls = "MATERIALS" THEN "Material" ELSE "Geometry_Node"
preset_processing_body(file, cls, node_tree, gname, gid, node_values, values_id, preset_name, user_) ==
    LET \* INFO
        Info(f) ==
            IF gid \in DOMAIN f.PRESETS[cls].INFO THEN f
            ELSE [f EXCEPT !.PRESETS[cls].INFO = Put(@, gid,
                     [data |-> loads_dumps(node_type_dict(node_tree, ClassName(cls))),
                      name |-> <<gname[1]>>, class |-> ClassName(cls), user |-> user_])]
        \* DATA
        Data(f1) == values_record(f1, cls, node_values, values_id, preset_name)
        \* NODES: ntd_ is read back from INFO
        Nodes(d) ==
            IF d.exc # "" THEN [exc |-> d.exc, file |-> d.file, node_ids |-> PyDict(<<>>)]
            ELSE save_nodes(d.file, node_tree, d.file.PRESETS[cls].INFO[gid].data, 1,
                            PyDict(<<>>))
        \* NODE_STACK
        StackAt(r, ni_id) ==
            [exc |-> "", ni_id |-> ni_id,
             file |-> IF ni_id \in DOMAIN r.file.NODE_STACK THEN r.file
                      ELSE [r.file EXCEPT !.NODE_STACK =
                               Put(@, ni_id, [data |-> loads_dumps(r.node_ids)])]]
        Stack(r) ==
            IF r.exc # "" THEN [exc |-> r.exc, ni_id |-> "", file |-> r.file]
            ELSE StackAt(r, hash_dict(r.node_ids))
        \* TRANSACTIONS
        TransAt(s, pid) ==
            [exc |-> "", pid |-> pid,
             file |-> IF pid \in DOMAIN s.file.PRESETS[cls].TRANSACTIONS THEN s.file
                      ELSE [s.file EXCEPT !.PRESETS[cls].TRANSACTIONS = Put(@, pid,
                               [data |-> <<gid, values_id, s.ni_id>>, name |-> preset_name])]]
        Trans(s) ==
            IF s.exc # "" THEN [exc |-> s.exc, pid |-> "", file |-> s.file]
            ELSE TransAt(s, hash_list(PyList(<<PyStr(gid), PyStr(values_id), PyStr(s.ni_id)>>)))
        \* LINKS
        Links(t) ==
            IF t.exc # "" THEN Raise(t.exc, t.file)
            ELSE IF gid \notin DOMAIN t.file.PRESETS[cls].FULL
            THEN Return(TRUE, t.file.PRESETS[cls].TRANSACTIONS[t.pid].name, t.pid,
                        [t.file EXCEPT !.PRESETS[cls].FULL = Put(@, gid, <<t.pid>>),
                                       !.PRESETS[cls].VALUES = Put(@, gid, <<values_id>>)])
            ELSE Return(~InSeq(t.pid, t.file.PRESETS[cls].FULL[gid]),
                        t.file.PRESETS[cls].TRANSACTIONS[t.pid].name, t.pid,
                        [t.file EXCEPT !.PRESETS[cls].FULL[gid] = AppendNew(@, t.pid),
                                       !.PRESETS[cls].VALUES[gid] = AppendNew(@, values_id)])
    IN Links(Trans(Stack(Nodes(Data(Info(file))))))


(***************************************************************************)
(* Geometry node groups                                                    *)
(***************************************************************************)
\* bool(value) of a modifier property
Truthy(value) ==
    CASE value.t = "int" -> value.v # "0"
      [] value.t = "float" -> value.v \notin {"0.0", "-0.0"}
      [] value.t = "bool" -> value.v = "true"
      [] value.t = "str" -> value.v # ""
      [] value.t \in {"list", "tuple", "ndarray"} -> Len(value.v) > 0
      [] OTHER -> TRUE

is_basic_type(value) == value.t \in {"int", "float", "str", "bool"}

ignore_sockets_int == {"NodeSocketGeometry", "NodeSocketObject", "NodeSocketMaterial",
                       "NodeSocketInt"}
ignore_sockets == {"NodeSocketGeometry", "NodeSocketObject", "NodeSocketMaterial"}

\* get_node_group_input_data: (identifier, value) of the interface sockets
\* that are not ignored, are set on the modifier and hold a truthy value
RECURSIVE get_node_group_input_data_from(_, _, _)
get_node_group_input_data_from(node_group, modifier, i) ==
    IF i > Len(node_group.items) THEN <<>>
    ELSE LET item == node_group.items[i]
             sock == item.identifier
             keep == /\ item.socket_type \notin ignore_sockets
                     /\ sock # ""
                     /\ HasKey(modifier, sock)
                     /\ Truthy(GetV(modifier, sock))
             value == GetV(modifier, sock)
         IN (IF keep
             THEN << <<sock, IF is_basic_type(value) THEN value ELSE PyList(value.v)>> >>
             ELSE <<>>)
            \o get_node_group_input_data_from(node_group, modifier, i + 1)
get_node_group_input_data(node_group, modifier) ==
    PyDict(get_node_group_input_data_from(node_group, modifier, 1))

geometry_node_preset_processing_unchecked(file, node_group, modifier, preset_name, user_) ==
    LET ng_id == hash_dict(get_all_nodes(node_group))
        node_values == get_node_group_input_data(node_group, modifier)
        values_id == hash_dict(node_values)
    IN preset_processing_body(file, "GEOMETRY_NODES", node_group, node_group.name, ng_id,
                              node_values, values_id, preset_name, user_)
geometry_node_preset_processing(file, node_group, modifier, preset_name, user_) ==
    IF preset_name \in get_names(file.PRESETS["GEOMETRY_NODES"].TRANSACTIONS)
    THEN Raise("NameExistsError", file)
    ELSE LET ng_id == hash_dict(get_all_nodes(node_group))
             node_values == get_node_group_input_data(node_group, modifier)
             values_id == hash_dict(node_values)
         IN preset_processing_body(file, "GEOMETRY_NODES", node_group, node_group.name, ng_id,
                                   node_values, values_id, preset_name, user_)

\* geometry_node_processing (one layer of a modifier stack): a taken name
\* is suffixed instead of refused
geometry_node_processing(file, node_group, modifier, preset_name, user_) ==
    LET Named(name1, node_values) ==
            IF name1 = RaisedValueError THEN Raise("ValueError", file)
            ELSE preset_processing_body(file, "GEOMETRY_NODES", node_group, node_group.name,
                                        hash_dict(get_all_nodes(node_group)),
                                        node_values, hash_dict(node_values), name1, user_)
    IN Named(IF preset_name \in get_names(file.PRESETS["GEOMETRY_NODES"].TRANSACTIONS)
             THEN get_match_series_highest(preset_name,
                      get_names(file.PRESETS["GEOMETRY_NODES"].TRANSACTIONS))
             ELSE preset_name,
             get_node_group_input_data(node_group, modifier))


(***************************************************************************)
(* Materials                                                               *)
(***************************************************************************)
ignore_types == {"RGB", "CURVE_FLOAT", "VALTORGB", "CURVE_VEC", "CURVE_RGB", "INPUT_COLOR",
                 "OUTPUT_MATERIAL", "REROUTE", "FRAME", "GROUP", "GROUP_INPUT",
                 "GROUP_OUTPUT", "TEX_IMAGE"}

\* get_node_inputs: {socket.name: [value, idx]} of the unlinked inputs
RECURSIVE get_node_inputs(_, _)
get_node_inputs(node, i) ==
    IF i > Len(node.inputs) THEN <<>>
    ELSE (IF ~node.inputs[i].linked
          THEN << <<node.inputs[i].name, PyList(<<node.inputs[i].value, PyInt(i - 1)>>)>> >>
          ELSE <<>>)
         \o get_node_inputs(node, i + 1)

\* get_nodes: [index, type, attr, inputs] of the ordinary nodes of one tree
RECURSIVE get_nodes(_, _, _)
get_nodes(node_tree, parent, idx) ==
    IF idx >= Len(node_tree.nodes) THEN <<>>
    ELSE LET node == At(node_tree.nodes, idx)
         IN (IF node.type \notin ignore_types
             THEN <<[index |-> Append(parent, idx), type |-> node.type,
                     attr |-> node.attr, inputs |-> get_node_inputs(node, 1)]>>
             ELSE <<>>)
            \o get_nodes(node_tree, parent, idx + 1)

\* get_group_nodes as the module defines it last (the definition in force):
\* the nested tree of every GROUP node, each with the unchanged parent
RECURSIVE get_group_nodes(_, _, _)
get_group_nodes(node_tree, parent, i) ==
    IF i > Len(node_tree.nodes) THEN <<>>
    ELSE (IF node_tree.nodes[i].type = "GROUP"
          THEN <<[node_tree |-> node_tree.nodes[i].node_tree, parent |-> parent]>> ELSE <<>>)
         \o get_group_nodes(node_tree, parent, i + 1)

RECURSIVE get_node_structure_gen(_, _)
RECURSIVE StructureOfGroups(_, _)
StructureOfGroups(groups, k) ==
    IF k > Len(groups) THEN <<>>
    ELSE get_node_structure_gen(groups[k].node_tree, groups[k].parent)
         \o StructureOfGroups(groups, k + 1)
get_node_structure_gen(node_tree, parent) ==
    get_nodes(node_tree, parent, 0) \o StructureOfGroups(get_group_nodes(node_tree, parent, 1), 1)

\* get_mat_node_group_inputs: the unlinked inputs of the root GROUP nodes
RECURSIVE GroupInputs(_, _)
GroupInputs(node, i) ==
    IF i > Len(node.inputs) THEN <<>>
    ELSE (IF ~node.inputs[i].linked
          THEN << <<node.inputs[i].name, node.inputs[i].value>> >> ELSE <<>>)
         \o GroupInputs(node, i + 1)
RECURSIVE get_mat_node_group_inputs(_, _)
get_mat_node_group_inputs(node_tree, i) ==
    IF i > Len(node_tree.nodes) THEN <<>>
    ELSE LET node == node_tree.nodes[i]
         IN (IF node.type = "GROUP"
             THEN <<PyDict(<< <<"name", PyStr(node.name)>>,
                              <<"node", NoneValue>>,
                              <<"type", PyStr(node.type)>>,
                              <<"data", PyDict(<< <<"attr", PyDict(<<>>)>>,
                                                  <<"inputs", PyDict(GroupInputs(node, 1))>> >>)>> >>)>>
             ELSE <<>>)
            \o get_mat_node_group_inputs(node_tree, i + 1)

format_mat_node_data(material) ==
    LET structure == get_node_structure_gen(material.node_tree, <<>>)
    IN PyList([k \in DOMAIN structure |->
            PyDict(<< <<"node", PathV(structure[k].index)>>,
                      <<"type", PyStr(structure[k].type)>>,
                      <<"data", PyDict(<< <<"attr", PyDict(structure[k].attr)>>,
                                          <<"inputs", PyDict(structure[k].inputs)>> >>)>> >>)]
           \o get_mat_node_group_inputs(material.node_tree, 1))

material_preset_processing(file, material, preset_name, user_) ==
    IF preset_name \in get_names(file.PRESETS["MATERIALS"].TRANSACTIONS)
    THEN Raise("NameExistsError", file)
    ELSE LET mat_id == hash_dict(get_all_nodes(material.node_tree))
             node_values == format_mat_node_data(material)
             values_id == hash_list(node_values)
         IN preset_processing_body(file, "MATERIALS", material.node_tree, material.name, mat_id,
                                   node_values, values_id, preset_name, user_)


(***************************************************************************)
(* Physics, collision, hair, single node, modifier stack                   *)
(***************************************************************************)
physics_preset_processing(file, ptype, data, preset_name) ==
    IF preset_name \in get_names(file.PHYSICS[ptype])
    THEN Raise("NameExistsError", file)
    ELSE LET phy_id == hash_dict(data)
         IN IF phy_id \notin DOMAIN file.PHYSICS[ptype]
            THEN Return(TRUE, preset_name, phy_id,
                        [file EXCEPT !.PHYSICS[ptype] = Put(@, phy_id,
                            [data |-> loads_dumps(data), name |-> preset_name])])
            ELSE Return(FALSE, file.PHYSICS[ptype][phy_id].name, phy_id, file)

collision_preset_processing(file, data, preset_name) ==
    IF preset_name \in get_names(file.PHYSICS["COLLISION"])
    THEN Raise("NameExistsError", file)
    ELSE LET phy_id == hash_dict(data)
         IN IF phy_id \notin DOMAIN file.PHYSICS["COLLISION"]
            THEN Return(TRUE, preset_name, phy_id,
                        [file EXCEPT !.PHYSICS["COLLISION"] = Put(@, phy_id,
                            [data |-> loads_dumps(data), name |-> preset_name])])
            ELSE Return(FALSE, file.PHYSICS["COLLISION"][phy_id].name, phy_id, file)

hair_preset_processing(file, data, preset_name) ==
    IF preset_name \in get_names(file.POINTS)
    THEN Raise("NameExistsError", file)
    ELSE LET h_id == hash_dict(data)
         IN IF h_id \notin DOMAIN file.POINTS
            THEN Return(TRUE, preset_name, h_id,
                        [file EXCEPT !.POINTS = Put(@, h_id,
                                        [data |-> GetV(data, "points"), name |-> preset_name]),
                                     !.SIZES = Put(@, h_id, [data |-> GetV(data, "sizes")])])
            ELSE Return(FALSE, file.POINTS[h_id].name, h_id, file)

\* match_node / match_node_structure_gen: [index, type] of the first node
\* that is the given node; nested trees are searched with the parent they
\* were handed by get_group_nodes.  <<>> when the generator is exhausted.
RECURSIVE match_node(_, _, _, _)
match_node(node_, node_tree, parent, idx) ==
    IF idx >= Len(node_tree.nodes) THEN <<>>
    ELSE (IF <<node_tree.key, idx>> = node_
          THEN <<[index |-> Append(parent, idx), type |-> At(node_tree.nodes, idx).type]>>
          ELSE <<>>)
         \o match_node(node_, node_tree, parent, idx + 1)
RECURSIVE match_node_structure_gen(_, _, _)
RECURSIVE MatchInGroups(_, _, _)
MatchInGroups(node_, groups, k) ==
    IF k > Len(groups) THEN <<>>
    ELSE match_node_structure_gen(node_, groups[k].node_tree, groups[k].parent)
         \o MatchInGroups(node_, groups, k + 1)
match_node_structure_gen(node_, node_tree, parent) ==
    match_node(node_, node_tree, parent, 0)
      \o MatchInGroups(node_, get_group_nodes(node_tree, parent, 1), 1)

\* node is the pair <<key of its tree, index in that tree>>
node_preset_processing(file, node, node_tree, preset_name) ==
    LET found == match_node_structure_gen(node, node_tree, <<>>)
    IN IF found = <<>> THEN Raise("StopIteration", file)
       ELSE
       LET node_data == found[1].index
           node_type == found[1].type
           read == IF Len(node_data) = 1
                   THEN (IF node_data[1] >= Len(node_tree.nodes) THEN Node("IndexError", "")
                         ELSE At(node_tree.nodes, node_data[1]))
                   ELSE get_node_group_groups(node_tree, node_data)
       IN IF node_type \notin NodeTypes THEN Raise("KeyError", file)
          ELSE IF read.type \in {"IndexError", "KeyError"} THEN Raise(read.type, file)
          ELSE IF read.type # node_type THEN Raise("AttributeError", file)
          ELSE
          LET data == get_nodes_func(node_type, read)
              nid == hash_dict(data)
          IN IF preset_name \in get_names(file.NODES) THEN Raise("NameExistsError", file)
             ELSE IF nid \notin DOMAIN file.NODES
             THEN Return(TRUE, NoName, nid,
                    [file EXCEPT !.NODES = Put(@, nid, [data |-> loads_dumps(data),
                                                name |-> preset_name, type |-> node_type]),
                                 !.KIND[node_type] = AppendNew(@, nid)])
             ELSE Return(FALSE, file.NODES[nid].name, nid, file)

\* f"{preset_name}_{nname}"
Underscore(preset_name, nname) ==
    [i \in DOMAIN preset_name |->
        IF i = Len(preset_name) THEN preset_name[i] \o "_" \o nname ELSE preset_name[i]]

\* the loop over the NODES modifiers of modifier_stack_preset_processing
RECURSIVE SaveLayers(_, _, _, _, _)
SaveLayers(file, mods, k, preset_name, mod_stack_ids) ==
    LET Layer(r) ==
            IF r.exc # "" THEN [exc |-> r.exc, file |-> r.file, ids |-> mod_stack_ids]
            ELSE SaveLayers(r.file, mods, k + 1, preset_name,
                            Append(mod_stack_ids, PyStr(r.ret.id)))
    IN IF k > Len(mods) THEN [exc |-> "", file |-> file, ids |-> mod_stack_ids]
       ELSE Layer(geometry_node_processing(file, mods[k].node_group, mods[k].values,
                      Underscore(preset_name, mods[k].node_group.name[1]),
                      mods[k].node_group.hf_user))

\* the NODES modifiers of the object, the surface deform layer left out
\* unless include_surface_deform
RECURSIVE StackModifiers(_, _, _)
StackModifiers(modifiers, include_surface_deform, k) ==
    IF k > Len(modifiers) THEN <<>>
    ELSE (IF /\ modifiers[k].type = "NODES"
             /\ (include_surface_deform
                   \/ modifiers[k].node_group.name[1] # "Surface Deform")
          THEN <<modifiers[k]>> ELSE <<>>)
         \o StackModifiers(modifiers, include_surface_deform, k + 1)

modifier_stack_preset_processing(file, ob, preset_name, include_surface_deform) ==
    LET Stored(r, ms_id) ==
            IF ms_id \notin DOMAIN r.file.MODIFIER_STACK
            THEN Return(TRUE, preset_name, ms_id,
                   [r.file EXCEPT !.MODIFIER_STACK = Put(@, ms_id,
                         [data |-> [i \in DOMAIN r.ids |-> r.ids[i].v], name |-> preset_name])])
            ELSE Return(FALSE, preset_name, ms_id, r.file)
        Layers(r) == IF r.exc # "" THEN Raise(r.exc, r.file)
                     ELSE Stored(r, hash_list(PyList(r.ids)))
    IN IF preset_name \in get_names(file.MODIFIER_STACK)
       THEN Raise("NameExistsError", file)
       ELSE Layers(SaveLayers(file,
                       StackModifiers(ob.modifiers, include_surface_deform, 1),
                       1, preset_name, <<>>))


(***************************************************************************)
(* Rename                                                                  *)
(***************************************************************************)
\* the h5py paths the callers pass as pfile
TablePaths == {"NODES", "/PRESETS/GEOMETRY_NODES/TRANSACTIONS",
               "/PRESETS/GEOMETRY_NODES/MODIFIER_STACK", "/PRESETS/MATERIALS/TRANSACTIONS",
               "/PHYSICS/CLOTH", "/PHYSICS/SOFT_BODY", "/PHYSICS/COLLISION", "/HAIR/POINTS"}

\* hf[pfile]
TableAt(file, pfile) ==
    CASE pfile = "NODES" -> file.NODES
      [] pfile = "/PRESETS/GEOMETRY_NODES/TRANSACTIONS" -> file.PRESETS["GEOMETRY_NODES"].TRANSACTIONS
      [] pfile = "/PRESETS/GEOMETRY_NODES/MODIFIER_STACK" -> file.MODIFIER_STACK
      [] pfile = "/PRESETS/MATERIALS/TRANSACTIONS" -> file.PRESETS["MATERIALS"].TRANSACTIONS
      [] pfile = "/PHYSICS/CLOTH" -> file.PHYSICS["CLOTH"]
      [] pfile = "/PHYSICS/SOFT_BODY" -> file.PHYSICS["SOFT_BODY"]
      [] pfile = "/PHYSICS/COLLISION" -> file.PHYSICS["COLLISION"]
      [] pfile = "/HAIR/POINTS" -> file.POINTS

\* hf[pfile][id_].attrs['name'] = name
SetName(file, pfile, id_, name) ==
    CASE pfile = "NODES" -> [file EXCEPT !.NODES[id_].name = name]
      [] pfile = "/PRESETS/GEOMETRY_NODES/TRANSACTIONS" ->
            [file EXCEPT !.PRESETS["GEOMETRY_NODES"].TRANSACTIONS[id_].name = name]
      [] pfile = "/PRESETS/GEOMETRY_NODES/MODIFIER_STACK" ->
            [file EXCEPT !.MODIFIER_STACK[id_].name = name]
      [] pfile = "/PRESETS/MATERIALS/TRANSACTIONS" ->
            [file EXCEPT !.PRESETS["MATERIALS"].TRANSACTIONS[id_].name = name]
      [] pfile = "/PHYSICS/CLOTH" -> [file EXCEPT !.PHYSICS["CLOTH"][id_].name = name]
      [] pfile = "/PHYSICS/SOFT_BODY" -> [file EXCEPT !.PHYSICS["SOFT_BODY"][id_].name = name]
      [] pfile = "/PHYSICS/COLLISION" -> [file EXCEPT !.PHYSICS["COLLISION"][id_].name = name]
      [] pfile = "/HAIR/POINTS" -> [file EXCEPT !.POINTS[id_].name = name]

\* returns prev_name (in ret.pname)
change_preset_name_unchecked(file, pfile, id_, name) ==
    IF pfile \notin TablePaths THEN Raise("KeyError", file)
    ELSE IF id_ \notin DOMAIN TableAt(file, pfile) THEN Raise("KeyError", file)
    ELSE Return(FALSE, TableAt(file, pfile)[id_].name, id_, SetName(file, pfile, id_, name))
change_preset_name(file, pfile, id_, name) ==
    IF pfile \notin TablePaths THEN Raise("KeyError", file)
    ELSE IF name \in get_names(TableAt(file, pfile)) THEN Raise("NameExistsError", file)
    ELSE IF id_ \notin DOMAIN TableAt(file, pfile) THEN Raise("KeyError", file)
    ELSE Return(FALSE, TableAt(file, pfile)[id_].name, id_, SetName(file, pfile, id_, name))

(***************************************************************************)
(* modify_in_zip: extract the entry, run func on the extracted file, write *)
(* the file back into the archive, return what func returned.  The bare    *)
(* except turns every exception into a plain return of None.               *)
(*   zip_file: the archive's entry; data: the outcome of func run on the   *)
(*   extracted copy of that entry                                          *)
(*   result: [archive, none, data, raised, exc, touched]                   *)
(*     none     modify_in_zip returned None                                *)
(*     data     what it returned otherwise                                 *)
(*     raised   the exception that leaves modify_in_zip ("": it returns)   *)
(*     exc      the exception func raised ("": none)                       *)
(*     touched  func had changed the extracted file when it finished       *)
(***************************************************************************)
modify_in_zip(zip_file, data) ==
    IF data.exc = ""
    THEN [archive |-> data.file, none |-> FALSE, data |-> data.ret, raised |-> "",
          exc |-> "", touched |-> data.file # zip_file]
    ELSE [archive |-> zip_file, none |-> TRUE, data |-> NoReturn, raised |-> "",
          exc |-> data.exc, touched |-> data.file # zip_file]


(***************************************************************************)
(* modify_in_zip statement by statement, for invocations that may fail at  *)
(* any statement and that may interleave.  The inner file is measured in   *)
(* the chunks read_file_by_chunks yields: a file is the set of mutations   *)
(* it holds and its length in chunks; its bytes are the sequence of its    *)
(* chunks.  The archive on disk is the sequence of the entries written     *)
(* into it (all under file_name) and whether its directory can be read.    *)
(***************************************************************************)
MaxCalls == 2           \* invocations of modify_in_zip in one run of ZipSpec
MaxBlocks == 2          \* length of the inner file, in chunks

\* the extracted file: present or not, and its bytes
Absent == [exists |-> FALSE, bytes |-> <<>>]
FileOf(bytes) == [exists |-> TRUE, bytes |-> bytes]

\* the generator read_file_by_chunks(src_file): the chunks of the file
read_file_by_chunks(f) == [i \in 1..f.blocks |-> [tags |-> f.tags, i |-> i, n |-> f.blocks]]

\* bytes that make up a whole HDF5 file, which h5py can open
IsWholeFile(bytes) ==
    /\ bytes # <<>>
    /\ bytes = read_file_by_chunks([tags |-> bytes[1].tags, blocks |-> bytes[1].n])

\* create_preset_zip: one writestr per chunk of the new, empty store file
create_preset_zip ==
    [entries |-> read_file_by_chunks([tags |-> {}, blocks |-> 1]),
     readable |-> TRUE, handles |-> {}]

\* zf.extract(file_name, extract_dir): the entry that the name resolves to
\* is the one written last under that name
ExtractedBytes(zf) == FileOf(<<zf.entries[Len(zf.entries)]>>)

\* func(extract_file, ...) of an invocation p that succeeds: the file holds
\* the mutation of p and may have grown by a chunk
Mutated(bytes, p, grow) ==
    [tags |-> bytes[1].tags \cup {p},
     blocks |-> IF grow /\ bytes[1].n < MaxBlocks THEN bytes[1].n + 1 ELSE bytes[1].n]

IdleCall == [pc |-> "idle", raises |-> FALSE, grow |-> FALSE, before |-> create_preset_zip,
             alone |-> TRUE, clashed |-> FALSE, returned |-> "", exc |-> ""]

ZipInit ==
    /\ zipdisk = create_preset_zip
    /\ extract_file = Absent
    /\ calls = [p \in 1..MaxCalls |-> IdleCall]

Active(p) == calls[p].pc \notin {"idle", "done"}

\* the invocation p moves to pc (into the except clause when exc is set)
Goto(p, pc, exc) ==
    calls' = [calls EXCEPT ![p].pc = IF exc = "" THEN pc ELSE "except", ![p].exc = exc]

\* extract_dir = zip_file.parent ... zf.extract(file_name, extract_dir)
ZipExtract ==
    /\ \E p \in 1..MaxCalls, raises \in BOOLEAN, grow \in BOOLEAN, fault \in BOOLEAN :
         LET exc == IF fault THEN "OSError"
                    ELSE IF ~zipdisk.readable THEN "BadZipFile"
                    ELSE IF zipdisk.entries = <<>> THEN "KeyError"
                    ELSE ""
             overlap == \E q \in 1..MaxCalls : Active(q)
         IN /\ calls[p].pc = "idle"
            /\ \A q \in 1..(p - 1) : calls[q].pc # "idle"
            /\ extract_file' = IF exc = "" THEN ExtractedBytes(zipdisk) ELSE extract_file
            /\ calls' = [q \in 1..MaxCalls |->
                           IF q = p
                           THEN [calls[p] EXCEPT !.pc = IF exc = "" THEN "func" ELSE "except",
                                                 !.exc = exc, !.raises = raises, !.grow = grow,
                                                 !.before = zipdisk, !.alone = ~overlap]
                           ELSE IF Active(q) THEN [calls[q] EXCEPT !.alone = FALSE]
                           ELSE calls[q]]
    /\ UNCHANGED <<archive, other, log, docs, hin, hout, scene, addon, zipdisk>>

\* data = func(extract_file, *args, **kwargs); func opens the file with
\* h5py's File(file, 'a'), which creates the file when there is none
ZipFunc ==
    /\ \E p \in 1..MaxCalls :
         /\ calls[p].pc = "func"
         /\ IF extract_file = Absent
            THEN extract_file' = FileOf(<<>>) /\ Goto(p, "", "KeyError")
            ELSE IF ~IsWholeFile(extract_file.bytes)
            THEN extract_file' = extract_file /\ Goto(p, "", "OSError")
            ELSE IF calls[p].raises
            THEN extract_file' = extract_file /\ Goto(p, "", "NameExistsError")
            ELSE /\ extract_file' = FileOf(read_file_by_chunks(
                                        Mutated(extract_file.bytes, p, calls[p].grow)))
                 /\ Goto(p, "open", "")
    /\ UNCHANGED <<archive, other, log, docs, hin, hout, scene, addon, zipdisk>>

\* with ZipFile(zip_file, 'w', ...) as zf: opening truncates the archive
ZipOpen ==
    /\ \E p \in 1..MaxCalls, fault \in BOOLEAN :
         /\ calls[p].pc = "open"
         /\ IF fault
            THEN zipdisk' = zipdisk /\ Goto(p, "", "OSError")
            ELSE /\ zipdisk' = [entries |-> <<>>, readable |-> FALSE,
                                handles |-> zipdisk.handles \cup {p}]
                 /\ calls' = [q \in 1..MaxCalls |->
                                IF q = p
                                THEN [calls[p] EXCEPT !.pc = "write",
                                                      !.clashed = zipdisk.handles # {}]
                                ELSE IF q \in zipdisk.handles
                                THEN [calls[q] EXCEPT !.clashed = TRUE]
                                ELSE calls[q]]
    /\ UNCHANGED <<archive, other, log, docs, hin, hout, scene, addon, extract_file>>

\* for chunk in read_file_by_chunks(extract_file): zf.writestr(file_name, chunk)
\* and the end of the with block, which writes the directory.  k chunks are
\* written before a fault; two handles that wrote to the archive at a time
\* leave a file whose directory may or may not be readable.
ZipWrite ==
    /\ \E p \in 1..MaxCalls :
         /\ calls[p].pc = "write"
         /\ \E readable \in (IF calls[p].clashed THEN BOOLEAN ELSE {TRUE}) :
              IF extract_file = Absent
              THEN /\ zipdisk' = [entries |-> <<>>, readable |-> readable,
                                  handles |-> zipdisk.handles \ {p}]
                   /\ Goto(p, "", "FileNotFoundError")
              ELSE \E k \in 0..Len(extract_file.bytes) :
                      /\ zipdisk' = [entries |-> SubSeq(extract_file.bytes, 1, k),
                                     readable |-> readable,
                                     handles |-> zipdisk.handles \ {p}]
                      /\ Goto(p, "unlink", IF k < Len(extract_file.bytes) THEN "OSError" ELSE "")
    /\ UNCHANGED <<archive, other, log, docs, hin, hout, scene, addon, extract_file>>

\* extract_file.unlink(); return data
ZipUnlink ==
    /\ \E p \in 1..MaxCalls :
         /\ calls[p].pc = "unlink"
         /\ IF extract_file = Absent
            THEN extract_file' = extract_file /\ Goto(p, "", "FileNotFoundError")
            ELSE /\ extract_file' = Absent
                 /\ calls' = [calls EXCEPT ![p].pc = "done", ![p].returned = "data"]
    /\ UNCHANGED <<archive, other, log, docs, hin, hout, scene, addon, zipdisk>>

ZipExcept_keep ==
    /\ \E p \in 1..MaxCalls :
         /\ calls[p].pc = "except"
         /\ calls' = [calls EXCEPT ![p].pc = "done", ![p].returned = "None"]
    /\ UNCHANGED <<archive, other, log, docs, hin, hout, scene, addon, zipdisk, extract_file>>
\* except: try: extract_file.unlink() except: pass      (None is returned)
ZipExcept ==
    /\ \E p \in 1..MaxCalls :
         /\ calls[p].pc = "except"
         /\ extract_file' = Absent
         /\ calls' = [calls EXCEPT ![p].pc = "done", ![p].returned = "None"]
    /\ UNCHANGED <<archive, other, log, docs, hin, hout, scene, addon, zipdisk>>

ZipNext ==
    \/ ZipExtract
    \/ ZipFunc
    \/ ZipOpen
    \/ ZipWrite
    \/ ZipUnlink
    \/ ZipExcept

(***************************************************************************)
(* Export and import of material / geometry-node presets.                  *)
(* An entry of data.nodes[ntype] is the sequence <<n, payload, name, id>>. *)
(***************************************************************************)
\* {ntype: [[n, loads(NODES[nst[ntype][i]]), name, nst[ntype][i]] for i, n in enumerate(ntd[ntype])]}
ExportNodes(file, ntd, nst) ==
    [t \in DOMAIN ntd.v |->
        LET ntype == ntd.v[t][1]
            ids == GetV(nst, ntype).v
        IN <<ntype, [i \in DOMAIN ntd.v[t][2].v |->
                        <<ntd.v[t][2].v[i], file.NODES[ids[i].v].data,
                          file.NODES[ids[i].v].name, ids[i].v>>]>>]

\* export_mat_preset_data_by_preset_id / export_gn_preset_data_by_preset_id
export_preset_data_by_preset_id(file, cls, id_) ==
    LET trans == file.PRESETS[cls].TRANSACTIONS[id_].data
        info == file.PRESETS[cls].INFO[trans[1]]
        nst == file.NODE_STACK[trans[3]].data
    IN [name |-> file.PRESETS[cls].TRANSACTIONS[id_].name,
        id |-> id_,
        transaction |-> trans,
        group |-> [name |-> info.name, class |-> info.class, user |-> info.user],
        node_stack |-> nst,
        data |-> [values |-> file.PRESETS[cls].DATA[trans[2]].data,
                  nodes |-> ExportNodes(file, info.data, nst)]]

\* the operator's document {'META': {'NAME', 'TYPE'}, 'DATA': data}, as
\* json.dump writes it and read_json reads it back
ExportDocument(file, cls, id_, name) ==
    [META |-> [NAME |-> name, TYPE |-> ClassName(cls)],
     DATA |-> export_preset_data_by_preset_id(file, cls, id_)]

\* The NODES loop of import_mat_preset_data / import_gn_preset_data for the
\* entries of one node type: data = node[2], nid = node[4], name = node[3]
RECURSIVE import_nodes_of_type(_, _, _, _)
import_nodes_of_type(file, node_type, entries, k) ==
    IF k > Len(entries) THEN [exc |-> "", file |-> file]
    ELSE
    LET node == entries[k]
    IN IF Len(node) < 5 THEN [exc |-> "IndexError", file |-> file]
       ELSE
       LET data == At(node, 2)
           nid == At(node, 4)
           isnew == nid \notin DOMAIN file.NODES
           created == [file EXCEPT !.NODES = Put(@, nid,
                          [data |-> data, name |-> NoName, type |-> ""])]
           suggested_name == IF At(node, 3) \in get_names(created.NODES)
                             THEN get_match_series_highest(At(node, 3), get_names(created.NODES))
                             ELSE At(node, 3)
           named == [created EXCEPT !.NODES[nid].name = suggested_name,
                                    !.NODES[nid].type = node_type]
           file1 == IF isnew THEN named ELSE file
           file2 == [file1 EXCEPT !.KIND[node_type] = AppendNew(@, nid)]
       IN IF isnew /\ suggested_name = RaisedValueError
          THEN [exc |-> "ValueError", file |-> created]
          ELSE import_nodes_of_type(file2, node_type, entries, k + 1)

RECURSIVE import_nodes(_, _, _)
import_nodes(file, nodes, t) ==
    IF t > Len(nodes) THEN [exc |-> "", file |-> file]
    ELSE LET r == import_nodes_of_type(file, nodes[t][1], nodes[t][2], 1)
         IN IF r.exc # "" THEN r ELSE import_nodes(r.file, nodes, t + 1)

\* a python slice d[:2] / an index d[4] of an entry
Slice2(d) == SubSeq(d, 1, IF Len(d) < 2 THEN Len(d) ELSE 2)

\* import_mat_preset_data (cls = "MATERIALS") / import_gn_preset_data
import_preset_data(file, cls, preset_data) ==
    LET pid == preset_data.id
        gid == preset_data.transaction[1]
        values_id == preset_data.transaction[2]
        ni_id == preset_data.transaction[3]
        nodes == preset_data.data.nodes
        \* TRANSACTIONS
        Trans(f, preset_name) ==
            IF preset_name = RaisedValueError
            THEN [exc |-> "ValueError", file |-> f, preset_name |-> preset_name]
            ELSE [exc |-> "", preset_name |-> preset_name,
                  file |-> [f EXCEPT !.PRESETS[cls].TRANSACTIONS = Put(@, pid,
                               [data |-> <<gid, values_id, ni_id>>, name |-> preset_name])]]
        \* INFO
        Info(s) ==
            IF s.exc # "" \/ gid \in DOMAIN s.file.PRESETS[cls].INFO THEN s
            ELSE [s EXCEPT !.file.PRESETS[cls].INFO = Put(@, gid,
                     [data |-> PyDict([t \in DOMAIN nodes |->
                                 <<nodes[t][1], PyList([i \in DOMAIN nodes[t][2] |->
                                                     PyList(Slice2(nodes[t][2][i]))])>>]),
                      name |-> preset_data.group.name,
                      class |-> preset_data.group.class, user |-> preset_data.group.user])]
        \* DATA
        DataNamed(s, values_name) ==
            IF values_name = RaisedValueError THEN [s EXCEPT !.exc = "ValueError"]
            ELSE [s EXCEPT !.file.PRESETS[cls].DATA[values_id].name = values_name]
        DataCreated(s) ==
            DataNamed(s, IF s.preset_name \in get_names(s.file.PRESETS[cls].DATA)
                         THEN get_match_series_highest(s.preset_name,
                                                       get_names(s.file.PRESETS[cls].DATA))
                         ELSE s.preset_name)
        Data(s) ==
            IF s.exc # "" \/ values_id \in DOMAIN s.file.PRESETS[cls].DATA THEN s
            ELSE DataCreated([s EXCEPT !.file.PRESETS[cls].DATA = Put(@, values_id,
                                [data |-> preset_data.data.values, name |-> NoName])])
        \* NODES
        NodesDone(s, r) == [s EXCEPT !.exc = r.exc, !.file = r.file]
        Nodes(s) == IF s.exc # "" THEN s ELSE NodesDone(s, import_nodes(s.file, nodes, 1))
        \* NODE_STACK
        Stack(s) ==
            IF s.exc # "" \/ ni_id \in DOMAIN s.file.NODE_STACK THEN s
            ELSE [s EXCEPT !.file.NODE_STACK = Put(@, ni_id,
                     [data |-> PyDict([t \in DOMAIN nodes |->
                                 <<nodes[t][1], PyList([i \in DOMAIN nodes[t][2] |->
                                                     PyStr(At(nodes[t][2][i], 4))])>>])])]
        \* LINKS
        Links(s) ==
            IF s.exc # "" THEN Raise(s.exc, s.file)
            ELSE IF gid \notin DOMAIN s.file.PRESETS[cls].FULL
            THEN Return(TRUE, s.preset_name, pid,
                        [s.file EXCEPT !.PRESETS[cls].FULL = Put(@, gid, <<pid>>),
                                       !.PRESETS[cls].VALUES = Put(@, gid, <<values_id>>)])
            ELSE Return(TRUE, s.preset_name, pid,
                        [s.file EXCEPT !.PRESETS[cls].FULL[gid] = AppendNew(@, pid),
                                       !.PRESETS[cls].VALUES[gid] = AppendNew(@, values_id)])
    IN IF pid \in DOMAIN file.PRESETS[cls].TRANSACTIONS
       THEN Return(FALSE, file.PRESETS[cls].TRANSACTIONS[pid].name, pid, file)
       ELSE Links(Stack(Nodes(Data(Info(
                Trans(file, IF preset_data.name \in get_names(file.PRESETS[cls].TRANSACTIONS)
                            THEN get_match_series_highest(preset_data.name,
                                     get_names(file.PRESETS[cls].TRANSACTIONS))
                            ELSE preset_data.name))))))


(***************************************************************************)
(* Export and import of physics, collision, hair, node and modifier-stack  *)
(* presets.                                                                *)
(***************************************************************************)
export_phy_preset_data_by_preset_id(file, id_, ptype) ==
    [id |-> id_, name |-> file.PHYSICS[ptype][id_].name, ptype |-> ptype,
     data |-> file.PHYSICS[ptype][id_].data]

export_col_preset_data_by_preset_id(file, id_) ==
    [id |-> id_, name |-> file.PHYSICS["COLLISION"][id_].name,
     data |-> file.PHYSICS["COLLISION"][id_].data]

\* the arrays are written to the document as nested lists (NUMPYEncoder)
export_hair_preset_data_by_preset_id(file, id_) ==
    [id |-> id_, name |-> file.POINTS[id_].name,
     points |-> tolist(file.POINTS[id_].data), sizes |-> tolist(file.SIZES[id_].data)]

export_node_preset_data_by_preset_id(file, id_) ==
    [id |-> id_, name |-> file.NODES[id_].name, type |-> file.NODES[id_].type,
     data |-> file.NODES[id_].data]

\* the keys of {i: {} for i in data}: every id once, at its first position
RECURSIVE DictKeys(_)
DictKeys(data) ==
    IF data = <<>> THEN <<>>
    ELSE LET front == DictKeys(SubSeq(data, 1, Len(data) - 1))
         IN AppendNew(front, data[Len(data)])

\* data_dict['data'] is kept as the sequence of its items <<id, layer>>
export_mod_stack_preset_data_by_preset_id(file, id_) ==
    [name |-> file.MODIFIER_STACK[id_].name, id |-> id_,
     data |-> [k \in DOMAIN DictKeys(file.MODIFIER_STACK[id_].data) |->
                 <<DictKeys(file.MODIFIER_STACK[id_].data)[k],
                   export_preset_data_by_preset_id(file, "GEOMETRY_NODES",
                       DictKeys(file.MODIFIER_STACK[id_].data)[k])>>]]

\* import_phy_data (table PHYSICS[ptype]) and import_collision_data: the
\* name is looked up in the series before the id is looked at
import_physics_table(file, ptype, preset_data) ==
    LET Named(preset_name) ==
            IF preset_name = RaisedValueError THEN Raise("ValueError", file)
            ELSE IF preset_data.id \notin DOMAIN file.PHYSICS[ptype]
            THEN Return(TRUE, preset_name, preset_data.id,
                        [file EXCEPT !.PHYSICS[ptype] = Put(@, preset_data.id,
                            [data |-> preset_data.data, name |-> preset_name])])
            ELSE Return(FALSE, file.PHYSICS[ptype][preset_data.id].name, preset_data.id, file)
    IN Named(IF preset_data.name \in get_names(file.PHYSICS[ptype])
             THEN get_match_series_highest(preset_data.name, get_names(file.PHYSICS[ptype]))
             ELSE preset_data.name)
import_phy_data(file, preset_data) ==
    IF preset_data.ptype \notin DOMAIN file.PHYSICS THEN Raise("KeyError", file)
    ELSE import_physics_table(file, preset_data.ptype, preset_data)
import_collision_data(file, preset_data) == import_physics_table(file, "COLLISION", preset_data)

\* import_hair_data: a name in use is passed to get_names(trans_file), and
\* trans_file is no name of the function (NameError); a new dataset is
\* created with shape len(points) from points of shape (len(points), 3),
\* which h5py refuses (ValueError) unless there is no point
import_hair_data(file, preset_data) ==
    IF preset_data.name \in get_names(file.POINTS) THEN Raise("NameError", file)
    ELSE IF preset_data.id \notin DOMAIN file.POINTS
    THEN (IF Len(preset_data.points.v) > 0 THEN Raise("ValueError", file)
          ELSE Return(TRUE, preset_data.name, preset_data.id,
                      [file EXCEPT !.POINTS = Put(@, preset_data.id,
                                      [data |-> preset_data.points, name |-> preset_data.name]),
                                   !.SIZES = Put(@, preset_data.id,
                                      [data |-> preset_data.sizes])]))
    ELSE Return(FALSE, file.POINTS[preset_data.id].name, preset_data.id, file)

import_node_preset_data(file, preset_data) ==
    LET nid == preset_data.id
        node_type == preset_data.type
        Listed(f) == Return(nid \notin DOMAIN file.NODES, f.NODES[nid].name, nid,
                            [f EXCEPT !.KIND[node_type] = AppendNew(@, nid)])
        Named(created, suggested_name) ==
            IF suggested_name = RaisedValueError THEN Raise("ValueError", created)
            ELSE Listed([created EXCEPT !.NODES[nid].name = suggested_name,
                                        !.NODES[nid].type = node_type])
        Created(created) ==
            Named(created, IF preset_data.name \in get_names(created.NODES)
                           THEN get_match_series_highest(preset_data.name,
                                                         get_names(created.NODES))
                           ELSE preset_data.name)
    IN IF node_type \notin NodeTypes THEN Raise("KeyError", file)
       ELSE IF nid \notin DOMAIN file.NODES
       THEN Created([file EXCEPT !.NODES = Put(@, nid,
                        [data |-> preset_data.data, name |-> NoName, type |-> ""])])
       ELSE Listed(file)

\* what import_mod_stack_preset_data returns: the lists success and fail
StackReturn(success, fail, id, file) ==
    [exc |-> "", file |-> file,
     ret |-> [preset_saved |-> success # <<>>, pname |-> NoName, id |-> id,
              success |-> success, fail |-> fail]]

\* the loop over the layers of import_mod_stack_preset_data: a layer is
\* imported as import_gn_preset_data imports it
RECURSIVE ImportLayers(_, _, _, _, _, _)
ImportLayers(file, ms_id, ng_data, k, success, fail) ==
    LET Layer(r) ==
            IF r.exc # "" THEN r
            ELSE ImportLayers(r.file, ms_id, ng_data, k + 1,
                              IF r.ret.preset_saved THEN Append(success, r.ret.pname)
                              ELSE success,
                              IF r.ret.preset_saved THEN fail
                              ELSE Append(Append(fail, r.ret.pname), NoName))
    IN IF k > Len(ng_data) THEN StackReturn(success, fail, ms_id, file)
       ELSE Layer(import_preset_data(file, "GEOMETRY_NODES", ng_data[k][2]))

import_mod_stack_preset_data(file, preset_data) ==
    LET ms_id == preset_data.id
        ng_data == preset_data.data
        Named(stack_preset_name) ==
            IF stack_preset_name = RaisedValueError THEN Raise("ValueError", file)
            ELSE ImportLayers(
                    [file EXCEPT !.MODIFIER_STACK = Put(@, ms_id,
                        [data |-> [k \in DOMAIN ng_data |-> ng_data[k][1]],
                         name |-> stack_preset_name])],
                    ms_id, ng_data, 1, <<stack_preset_name>>, <<>>)
    IN IF ms_id \in DOMAIN file.MODIFIER_STACK
       THEN StackReturn(<<>>, [k \in DOMAIN ng_data |-> ng_data[k][2].name], ms_id, file)
       ELSE Named(IF preset_data.name \in get_names(file.MODIFIER_STACK)
                  THEN get_match_series_highest(preset_data.name,
                                                get_names(file.MODIFIER_STACK))
                  ELSE preset_data.name)


(***************************************************************************)
(* Inputs: the scenes, settings and names the operations are run on.       *)
(***************************************************************************)
MaxOps == 2             \* operations in one run of Spec
MaxSeriesOps == 3       \* operations in one run of SeriesSpec
MaxPortOps == 3         \* operations in one run of PortSpec
MaxSocketValue == 1     \* Socket_1 takes the values 0..MaxSocketValue
MaxDocs == 1            \* export documents kept on disk

Names == {<<"Foo">>, <<"Bar">>}
OtherNames == {<<"Foo">>}      \* names of the physics, hair, node and stack saves
SeriesNames == {<<"Foo">>, <<"Foo", "bar">>, <<"Bar">>}

FloatCurveState(variant) ==
    [points |-> IF variant = 1
                THEN <<[location |-> <<"0.0", "0.0">>, handle_type |-> "AUTO"],
                       [location |-> <<"1.0", "1.0">>, handle_type |-> "AUTO"]>>
                ELSE <<[location |-> <<"0.0", "0.0">>, handle_type |-> "AUTO"],
                       [location |-> <<"0.5", "0.25">>, handle_type |-> "VECTOR"],
                       [location |-> <<"1.0", "1.0">>, handle_type |-> "AUTO"]>>,
     use_clip |-> TRUE, factor |-> "1.0", value |-> "0.5"]
RampState(variant) ==
    [elements |-> IF variant = 1
                  THEN <<[color |-> <<"0.0", "0.0", "0.0", "1.0">>, position |-> "0.0"],
                         [color |-> <<"1.0", "1.0", "1.0", "1.0">>, position |-> "1.0"]>>
                  ELSE <<[color |-> <<"0.8", "0.6", "0.2", "1.0">>, position |-> "0.0"],
                         [color |-> <<"1.0", "0.9", "0.5", "1.0">>, position |-> "1.0"]>>,
     color_mode |-> "RGB", interpolation |-> "LINEAR", hue_interpolation |-> "NEAR",
     factor |-> "0.5"]
RgbState(variant) ==
    [color |-> IF variant = 1 THEN <<"0.8", "0.1", "0.1", "1.0">>
                              ELSE <<"0.1", "0.1", "0.8", "1.0">>]

Special(type, name, state) == [Node(type, name) EXCEPT !.state = state]
Group(name, tree) == [Node("GROUP", name) EXCEPT !.node_tree = tree]

Interface == <<[identifier |-> "Socket_0", socket_type |-> "NodeSocketGeometry"],
               [identifier |-> "Socket_1", socket_type |-> "NodeSocketInt"],
               [identifier |-> "Socket_2", socket_type |-> "NodeSocketObject"]>>

\* the node groups "Curve", "Copy", "Nested" and "Plain": "Copy" is a
\* duplicate of "Curve" with renamed nodes, "Nested" keeps its float curve
\* inside a group node, "Plain" has no special node
NodeGroup(topo, curve) ==
    CASE topo = "Curve" ->
            [key |-> "Hair", name |-> <<"Hair">>, hf_user |-> "USER", items |-> Interface,
             nodes |-> <<Node("GROUP_INPUT", "Group Input"),
                         Special("CURVE_FLOAT", "Float Curve", FloatCurveState(curve)),
                         Special("VALTORGB", "Color Ramp", RampState(1)),
                         Node("GROUP_OUTPUT", "Group Output")>>,
             links |-> <<Link(0, 1, 0, 1), Link(1, 2, 0, 0), Link(2, 3, 0, 0)>>]
      [] topo = "Copy" ->
            [key |-> "Hair.002", name |-> <<"Hair", "002">>, hf_user |-> "USER", items |-> Interface,
             nodes |-> <<Node("GROUP_INPUT", "Group Input"),
                         Special("CURVE_FLOAT", "Profile", FloatCurveState(curve)),
                         Special("VALTORGB", "Tint", RampState(1)),
                         Node("GROUP_OUTPUT", "Group Output")>>,
             links |-> <<Link(0, 1, 0, 1), Link(1, 2, 0, 0), Link(2, 3, 0, 0)>>]
      [] topo = "Edited" ->   \* a copy of "Hair" whose ramp was taken out
            [key |-> "Hair.001", name |-> <<"Hair", "001">>, hf_user |-> "USER", items |-> Interface,
             nodes |-> <<Node("GROUP_INPUT", "Group Input"),
                         Special("CURVE_FLOAT", "Float Curve", FloatCurveState(curve)),
                         Node("GROUP_OUTPUT", "Group Output")>>,
             links |-> <<Link(0, 1, 0, 1), Link(1, 2, 0, 0)>>]
      [] topo = "Nested" ->
            [key |-> "Braid", name |-> <<"Braid">>, hf_user |-> "USER", items |-> Interface,
             nodes |-> <<Node("GROUP_INPUT", "Group Input"),
                         Group("Group", [key |-> "Profile", name |-> <<"Profile">>,
                                         hf_user |-> "USER", items |-> <<>>,
                                         nodes |-> <<Node("GROUP_INPUT", "Group Input"),
                                                     Special("CURVE_FLOAT", "Float Curve",
                                                             FloatCurveState(curve)),
                                                     Node("GROUP_OUTPUT", "Group Output")>>,
                                         links |-> <<Link(0, 1, 0, 1), Link(1, 2, 0, 0)>>]),
                         Node("GROUP_OUTPUT", "Group Output")>>,
             links |-> <<Link(0, 1, 0, 0), Link(1, 2, 0, 0)>>]
      [] topo = "Plain" ->
            [key |-> "Plain", name |-> <<"Plain">>, hf_user |-> "USER", items |-> Interface,
             nodes |-> <<Node("GROUP_INPUT", "Group Input"),
                         Node("MATH", "Math"),
                         Node("GROUP_OUTPUT", "Group Output")>>,
             links |-> <<Link(0, 1, 0, 0), Link(1, 2, 0, 0)>>]
      [] topo = "Tuft" ->     \* built by a script of the Hair Factory library
            [key |-> "Tuft", name |-> <<"Tuft">>, hf_user |-> "HAIR_FACTORY", items |-> Interface,
             nodes |-> <<Node("GROUP_INPUT", "Group Input"),
                         Special("CURVE_FLOAT", "Float Curve", FloatCurveState(curve)),
                         Node("GROUP_OUTPUT", "Group Output")>>,
             links |-> <<Link(0, 1, 0, 1), Link(1, 2, 0, 0)>>]
      [] topo = "Clump" ->    \* built by a script of the Hair Factory library
            [key |-> "Clump", name |-> <<"Clump">>, hf_user |-> "HAIR_FACTORY", items |-> Interface,
             nodes |-> <<Node("GROUP_INPUT", "Group Input"),
                         Node("MATH", "Math"),
                         Node("MATH", "Math.001"),
                         Node("GROUP_OUTPUT", "Group Output")>>,
             links |-> <<Link(0, 1, 0, 0), Link(1, 2, 0, 0), Link(2, 3, 0, 0)>>]

\* the properties of the modifier: Socket_1 an integer, Socket_2 an object
Modifier(s1, s2) ==
    PyDict(<< <<"Socket_1", PyInt(s1)>>, <<"Socket_2", [t |-> "object", v |-> s2]>> >>)

\* a geometry-node input: [topo, curve, s1, s2]
GNInputs ==
    [topo : {"Curve"}, curve : {1}, s1 : 0..MaxSocketValue, s2 : {"Head"}]
    \cup [topo : {"Curve"}, curve : {1}, s1 : {0}, s2 : {"Body"}]
    \cup [topo : {"Curve"}, curve : {2}, s1 : {0}, s2 : {"Head"}]
    \cup [topo : {"Copy"}, curve : {1}, s1 : {1}, s2 : {"Head"}]
    \cup [topo : {"Edited"}, curve : {1}, s1 : {0}, s2 : {"Head"}]
SeriesInputs == [topo : {"Curve"}, curve : {1}, s1 : 0..MaxSocketValue, s2 : {"Head"}]
PortInputs == [topo : {"Curve", "Nested", "Plain"}, curve : {1}, s1 : {0}, s2 : {"Head"}]

\* a material input: [topo, rough, color]
Material(topo, rough, color) ==
    LET bsdf == [Node("BSDF_PRINCIPLED", "Principled BSDF") EXCEPT
                    !.attr = << <<"distribution", PyStr("GGX")>> >>,
                    !.inputs = <<[name |-> "Base Color", value |-> NoneValue, linked |-> TRUE],
                                 [name |-> "Roughness", value |-> PyFloat(rough), linked |-> FALSE]>>]
        rgb == Special("RGB", "RGB", RgbState(color))
        out == Node("OUTPUT_MATERIAL", "Material Output")
    IN [name |-> <<topo>>,
        node_tree |->
          IF topo = "Skin"
          THEN [key |-> topo, name |-> <<topo>>, items |-> <<>>,
                nodes |-> <<bsdf, rgb, out>>,
                links |-> <<Link(1, 0, 0, 0), Link(0, 2, 0, 0)>>]
          ELSE [key |-> topo, name |-> <<topo>>, items |-> <<>>,
                nodes |-> <<bsdf, rgb, Node("MIX_SHADER", "Mix Shader"), out>>,
                links |-> <<Link(1, 0, 0, 0), Link(0, 2, 0, 1), Link(2, 3, 0, 0)>>]]
MatInputs == [topo : {"Skin"}, rough : {"0.5", "0.7"}, color : {1}]

\* physics / collision settings and hair point clouds
PhysicsData(mass) == PyDict(<< <<"friction", PyFloat("0.5")>>, <<"mass", PyFloat(mass)>> >>)
CollisionData(damping) ==
    PyDict(<< <<"absorption", PyFloat("0.0")>>, <<"damping", PyFloat(damping)>> >>)
HairData(strands) ==
    PyDict(<< <<"points", NdArray([i \in 1..(2 * strands) |->
                            NdArray(<<PyFloat("0.0"), PyFloat("0.0"), PyFloat(ToString(i) \o ".0")>>)])>>,
              <<"sizes", NdArray([i \in 1..strands |-> PyFloat("2.0")])>> >>)
Masses == {"0.3"}
Strands == {1}

\* objects with a modifier stack: the node groups from top to bottom
Stacks == {<<"Curve", "Plain">>}
StackObject(stack) ==
    [modifiers |-> [k \in DOMAIN stack |->
        [type |-> "NODES", node_group |-> NodeGroup(stack[k], 1), values |-> Modifier(1, "Head")]]]

\* the single nodes a node preset is saved from: <<tree key, index>>
NodeInputs ==
    [topo : {"Curve"}, curve : {1}, node : {<<"Hair", 1>>}]
    \cup [topo : {"Nested"}, curve : {1}, node : {<<"Profile", 1>>}]

\* Preset_Hair_Colors.json, the ramps that Set Up Preset loads
HairColors == << <<"Blonde", get_color_ramp_data(Special("VALTORGB", "", RampState(2)))>> >>

RECURSIVE load_preset_mat_colors(_, _, _)
load_preset_mat_colors(file, data_dict, k) ==
    IF k > Len(data_dict) THEN file
    ELSE LET data == data_dict[k][2]
             nid == hash_dict(data)
         IN load_preset_mat_colors(
              IF nid \notin DOMAIN file.NODES
              THEN [file EXCEPT !.NODES = Put(@, nid, [data |-> loads_dumps(data),
                                                name |-> <<data_dict[k][1]>>, type |-> "VALTORGB"]),
                                !.KIND["VALTORGB"] = AppendNew(@, nid)]
              ELSE file, data_dict, k + 1)

\* the store that Set Up Preset leaves: the empty layout plus the ramps
FreshStore == load_preset_mat_colors(create_preset_files, HairColors, 1)


(***************************************************************************)
(* Loading presets into the scene.  The scene is the active object: its    *)
(* modifiers, each with its node group, its properties (values) and the    *)
(* hf_node_group_load_type of its node group (load_type), and the index of *)
(* the active modifier (0 when there is none).                             *)
(***************************************************************************)
RemoveAt(seq, i) == [j \in 1..(Len(seq) - 1) |-> IF j < i THEN seq[j] ELSE seq[j + 1]]

\* for p in range(ct): points.remove(points[p]) -- the collection shrinks
\* while p grows; Blender refuses to go below least members
RECURSIVE remove_loop(_, _, _, _)
remove_loop(points, p, ct, least) ==
    IF p >= ct THEN [exc |-> "", points |-> points]
    ELSE IF p >= Len(points) THEN [exc |-> "IndexError", points |-> points]
    ELSE IF Len(points) <= least THEN [exc |-> "RuntimeError", points |-> points]
    ELSE remove_loop(RemoveAt(points, p + 1), p + 1, ct, least)

\* set_float_curve_data: the scalar fields, then the points: their number is
\* brought to len(handle_type), then every location and handle type is set
set_float_curve_data(float_curve, data) ==
    LET loc == GetV(data, "location").v
        ht == GetV(data, "handle_type").v
        scalars == [float_curve.state EXCEPT !.use_clip = (GetV(data, "use_clip").v = "true"),
                                            !.factor = GetV(data, "factor").v,
                                            !.value = GetV(data, "value").v]
        Sized(r) ==
            IF r.exc # ""
            THEN [exc |-> r.exc, node |-> [float_curve EXCEPT !.state =
                                              [scalars EXCEPT !.points = r.points]]]
            ELSE IF Len(loc) # Len(ht)
            THEN [exc |-> "RuntimeError",
                  node |-> [float_curve EXCEPT !.state = scalars]]
            ELSE [exc |-> "",
                  node |-> [float_curve EXCEPT !.state = [scalars EXCEPT !.points =
                              [i \in 1..Len(ht) |->
                                   [location |-> <<loc[i].v[1].v, loc[i].v[2].v>>,
                                    handle_type |-> ht[i].v]]]]]
    IN IF float_curve.type # "CURVE_FLOAT"
       THEN [exc |-> "AttributeError", node |-> float_curve]
       ELSE Sized(IF Len(float_curve.state.points) > Len(ht)
                  THEN remove_loop(float_curve.state.points, 0,
                                   Len(float_curve.state.points) - Len(ht), 2)
                  ELSE [exc |-> "", points |-> float_curve.state.points])

\* set_color_ramp_data: mode, factor and interpolation, then the elements
set_color_ramp_data(color_ramp, data) ==
    LET col == GetV(data, "color").v
        pos == GetV(data, "position").v
        mode == GetV(data, "color_mode").v
        interpolation == GetV(data, "interpolation").v
        scalars == IF mode = "RGB"
                   THEN [color_ramp.state EXCEPT !.color_mode = mode,
                                                !.factor = GetV(data, "factor").v,
                                                !.interpolation = interpolation]
                   ELSE [color_ramp.state EXCEPT !.color_mode = mode,
                                                !.factor = GetV(data, "factor").v,
                                                !.hue_interpolation = interpolation]
        Sized(r) ==
            IF r.exc # ""
            THEN [exc |-> r.exc, node |-> [color_ramp EXCEPT !.state =
                                              [scalars EXCEPT !.elements = r.points]]]
            ELSE IF Len(col) # Len(pos)
            THEN [exc |-> "RuntimeError", node |-> [color_ramp EXCEPT !.state = scalars]]
            ELSE [exc |-> "",
                  node |-> [color_ramp EXCEPT !.state = [scalars EXCEPT !.elements =
                              [i \in 1..Len(pos) |->
                                   [color |-> [j \in 1..Len(col[i].v) |-> col[i].v[j].v],
                                    position |-> pos[i].v]]]]]
    IN IF color_ramp.type # "VALTORGB"
       THEN [exc |-> "AttributeError", node |-> color_ramp]
       ELSE Sized(IF Len(color_ramp.state.elements) > Len(pos)
                  THEN remove_loop(color_ramp.state.elements, 0,
                                   Len(color_ramp.state.elements) - Len(pos), 1)
                  ELSE [exc |-> "", points |-> color_ramp.state.elements])

set_input_color_data(rgb_color, data) ==
    IF rgb_color.type # "INPUT_COLOR" THEN [exc |-> "AttributeError", node |-> rgb_color]
    ELSE [exc |-> "",
          node |-> [rgb_color EXCEPT !.state.value =
                      [j \in 1..Len(GetV(data, "value").v) |-> GetV(data, "value").v[j].v]]]
set_rgb_color_data(rgb_color, data) ==
    IF rgb_color.type # "RGB" THEN [exc |-> "AttributeError", node |-> rgb_color]
    ELSE [exc |-> "",
          node |-> [rgb_color EXCEPT !.state.color =
                      [j \in 1..Len(GetV(data, "color").v) |-> GetV(data, "color").v[j].v]]]

\* set_nodes_func_dict()[node_type](node, data)
set_nodes_func(node_type, node, data) ==
    CASE node_type = "CURVE_FLOAT" -> set_float_curve_data(node, data)
      [] node_type = "VALTORGB" -> set_color_ramp_data(node, data)
      [] node_type = "INPUT_COLOR" -> set_input_color_data(node, data)
      [] node_type = "RGB" -> set_rgb_color_data(node, data)
      [] OTHER -> [exc |-> "KeyError", node |-> node]

\* the setter run on the node that get_node_group_groups reaches by the
\* names str(addr[0]), str(addr[1]), ...; the tree with that node replaced
RECURSIVE set_in_groups(_, _, _, _)
set_in_groups(node_tree, groups, node_type, data) ==
    LET name == ToString(Head(groups))
        found == {j \in DOMAIN node_tree.nodes : node_tree.nodes[j].name = name}
        at == CHOOSE j \in found : TRUE
        Inner(r) == [exc |-> r.exc,
                     tree |-> [node_tree EXCEPT !.nodes[at].node_tree = r.tree]]
        Here(r) == [exc |-> r.exc, tree |-> [node_tree EXCEPT !.nodes[at] = r.node]]
    IN IF found = {} THEN [exc |-> "KeyError", tree |-> node_tree]
       ELSE IF Len(groups) = 1
       THEN Here(set_nodes_func(node_type, node_tree.nodes[at], data))
       ELSE Inner(set_in_groups(node_tree.nodes[at].node_tree, Tail(groups), node_type, data))

\* set_node_preset(node_group, node_type, addr, data)
set_node_preset(node_group, node_type, addr, data) ==
    LET Here(r) == [exc |-> r.exc,
                    tree |-> [node_group EXCEPT !.nodes[addr[1] + 1] = r.node]]
    IN IF Len(addr) = 1
       THEN (IF addr[1] >= Len(node_group.nodes)
             THEN [exc |-> "IndexError", tree |-> node_group]
             ELSE Here(set_nodes_func(node_type, At(node_group.nodes, addr[1]), data)))
       ELSE set_in_groups(node_group, addr, node_type, data)

\* set_node_presets: ndata as the sequence of its [node_type, addr, data]
\* in the order of the two loops; the first exception ends it
RECURSIVE set_node_presets(_, _, _)
set_node_presets(node_group, ndata, k) ==
    IF k > Len(ndata) THEN [exc |-> "", tree |-> node_group]
    ELSE LET Rest(r) == IF r.exc # "" THEN r ELSE set_node_presets(r.tree, ndata, k + 1)
         IN Rest(set_node_preset(node_group, ndata[k].node_type, ndata[k].addr,
                                 ndata[k].data))

\* set_node_group_input_data: modifier[item] = data[item] for every item
RECURSIVE set_node_group_input_data(_, _, _)
set_node_group_input_data(values, data, i) ==
    IF i > Len(data.v) THEN values
    ELSE set_node_group_input_data(SetItem(values, data.v[i][1], data.v[i][2]), data, i + 1)

\* {ntype: [[n, loads(NODES[nst[ntype][i]])] for i, n in enumerate(ntd[ntype])]
\*  for ntype in ntd}, flattened; <<>> with an exception when a key or an
\* index is missing
RECURSIVE NodeData(_, _, _, _, _)
NodeData(file, ntd, nst, t, i) ==
    IF t > Len(ntd.v) THEN [exc |-> "", ndata |-> <<>>]
    ELSE LET ntype == ntd.v[t][1]
             entries == ntd.v[t][2].v
             Cons(x, r) == IF r.exc # "" THEN r
                           ELSE [exc |-> "", ndata |-> <<x>> \o r.ndata]
         IN IF i > Len(entries) THEN NodeData(file, ntd, nst, t + 1, 1)
            ELSE IF ~HasKey(nst, ntype) THEN [exc |-> "KeyError", ndata |-> <<>>]
            ELSE IF i > Len(GetV(nst, ntype).v) THEN [exc |-> "IndexError", ndata |-> <<>>]
            ELSE IF GetV(nst, ntype).v[i].v \notin DOMAIN file.NODES
            THEN [exc |-> "KeyError", ndata |-> <<>>]
            ELSE Cons([node_type |-> ntype, addr |-> PathOf(entries[i]),
                       data |-> file.NODES[GetV(nst, ntype).v[i].v].data],
                      NodeData(file, ntd, nst, t, i + 1))

\* set_node_group_preset_data_by_preset_id with FULL taken for every load type
set_node_group_preset_data_always_full(file, modifier, id_) ==
    LET gn == file.PRESETS["GEOMETRY_NODES"]
        trans == gn.TRANSACTIONS[id_].data
        Applied(m, r) == [exc |-> r.exc, modifier |-> [m EXCEPT !.node_group = r.tree]]
        Nodes(m, nd) ==
            IF nd.exc # "" THEN [exc |-> nd.exc, modifier |-> m]
            ELSE Applied(m, set_node_presets(m.node_group, nd.ndata, 1))
        Full(m) ==
            IF trans[1] \notin DOMAIN gn.INFO \/ trans[3] \notin DOMAIN file.NODE_STACK
            THEN [exc |-> "KeyError", modifier |-> m]
            ELSE Nodes(m, NodeData(file, gn.INFO[trans[1]].data,
                                   file.NODE_STACK[trans[3]].data, 1, 1))
    IN IF id_ \notin DOMAIN gn.TRANSACTIONS THEN [exc |-> "KeyError", modifier |-> modifier]
       ELSE IF trans[2] \notin DOMAIN gn.DATA THEN [exc |-> "KeyError", modifier |-> modifier]
       ELSE Full([modifier EXCEPT !.values =
                     set_node_group_input_data(@, gn.DATA[trans[2]].data, 1)])

\* set_node_group_preset_data_by_preset_id(file, modifier, id_): the modifier
\* as the call leaves it, and the exception that ended the call
set_node_group_preset_data_by_preset_id(file, modifier, id_) ==
    LET gn == file.PRESETS["GEOMETRY_NODES"]
        trans == gn.TRANSACTIONS[id_].data
        Applied(m, r) == [exc |-> r.exc, modifier |-> [m EXCEPT !.node_group = r.tree]]
        Nodes(m, nd) ==
            IF nd.exc # "" THEN [exc |-> nd.exc, modifier |-> m]
            ELSE Applied(m, set_node_presets(m.node_group, nd.ndata, 1))
        Full(m) ==
            IF m.load_type # "FULL" THEN [exc |-> "", modifier |-> m]
            ELSE IF trans[1] \notin DOMAIN gn.INFO \/ trans[3] \notin DOMAIN file.NODE_STACK
            THEN [exc |-> "KeyError", modifier |-> m]
            ELSE Nodes(m, NodeData(file, gn.INFO[trans[1]].data,
                                   file.NODE_STACK[trans[3]].data, 1, 1))
    IN IF id_ \notin DOMAIN gn.TRANSACTIONS THEN [exc |-> "KeyError", modifier |-> modifier]
       ELSE IF trans[2] \notin DOMAIN gn.DATA THEN [exc |-> "KeyError", modifier |-> modifier]
       ELSE Full([modifier EXCEPT !.values =
                     set_node_group_input_data(@, gn.DATA[trans[2]].data, 1)])

\* get_node_group_presets: the ids the preset list of a node group offers
get_node_group_presets(file, node_group) ==
    {id_ \in DOMAIN file.PRESETS["GEOMETRY_NODES"].TRANSACTIONS :
        file.PRESETS["GEOMETRY_NODES"].TRANSACTIONS[id_].data[1]
            = hash_dict(get_all_nodes(node_group))}


\* node_func(dir_path, f"{name}.py"): the node group that the script of the
\* Hair Factory or user library builds, NoTree when the library has no such
\* script; the libraries hold the node groups of this model in their first
\* state
node_func(user, name) ==
    CASE user = "HAIR_FACTORY" /\ name = <<"Tuft">> -> NodeGroup("Tuft", 1)
      [] user = "HAIR_FACTORY" /\ name = <<"Clump">> -> NodeGroup("Clump", 1)
      [] user = "USER" /\ name = <<"Hair">> -> NodeGroup("Curve", 1)
      [] user = "USER" /\ name = <<"Braid">> -> NodeGroup("Nested", 1)
      [] OTHER -> NoTree

\* the properties a new modifier takes from the interface of its node group
NewValues == PyDict(<< <<"Socket_1", PyInt(0)>>, <<"Socket_2", NoneValue>> >>)

\* add_hair_factory_node: ob.modifiers.new(node_group.name, 'NODES') with the
\* node group of the library; the operator makes it the active modifier, or
\* leaves the object without active modifier when the library failed
add_hair_factory_node(ob, user, name) ==
    IF node_func(user, name) = NoTree THEN [ob EXCEPT !.active = 0]
    ELSE [ob EXCEPT !.modifiers = Append(ob.modifiers,
                               [type |-> "NODES", node_group |-> node_func(user, name),
                                values |-> NewValues, load_type |-> "FULL"]),
                    !.active = Len(ob.modifiers) + 1]

\* hair_factory.load_hair_factory_node / load_geometry_node / load_user_node
\* called from load_mod_stack_by_preset_id, that is with is_preset_path_set:
\* the poll of load_user_node is  not is_preset_path_set, so that the call
\* raises RuntimeError; no Blender asset is part of this model
load_node(ob, user, name) ==
    CASE user = "HAIR_FACTORY" -> [exc |-> "", ob |-> add_hair_factory_node(ob, user, name)]
      [] user = "BLENDER" -> [exc |-> "", ob |-> [ob EXCEPT !.active = 0]]
      [] user = "USER" -> [exc |-> "RuntimeError", ob |-> ob]
      [] OTHER -> [exc |-> "", ob |-> ob]

\* get_from_zip(..., set_node_group_preset_data_by_preset_id,
\*              bpy.context.object.modifiers.active, preset): what the call
\* raises is swallowed by get_from_zip
set_active_modifier(file, ob, preset) ==
    IF ob.active = 0 THEN ob
    ELSE [ob EXCEPT !.modifiers[ob.active] =
             set_node_group_preset_data_by_preset_id(file, @, preset).modifier]

\* load_mod_stack_by_preset_id: the members from number k on
RECURSIVE load_mod_stack_from(_, _, _, _)
load_mod_stack_from(file, ob, presets, k) ==
    LET gn == file.PRESETS["GEOMETRY_NODES"]
        ng == gn.TRANSACTIONS[presets[k]].data[1]
        Loaded(r) ==
            IF r.exc # "" THEN r
            ELSE load_mod_stack_from(file, set_active_modifier(file, r.ob, presets[k]),
                                     presets, k + 1)
    IN IF k > Len(presets) THEN [exc |-> "", ob |-> ob]
       ELSE IF presets[k] \notin DOMAIN gn.TRANSACTIONS \/ ng \notin DOMAIN gn.INFO
       THEN [exc |-> "TypeError", ob |-> ob]
       ELSE Loaded(load_node(ob, gn.INFO[ng].user, gn.INFO[ng].name))

load_mod_stack_by_preset_id(file, ob, id_) ==
    IF id_ \notin DOMAIN file.MODIFIER_STACK THEN [exc |-> "TypeError", ob |-> ob]
    ELSE load_mod_stack_from(file, ob, file.MODIFIER_STACK[id_].data, 1)


(***************************************************************************)
(* Loading a material preset                                               *)
(***************************************************************************)
\* setattr(node, attr, value) for every stored attribute, an attribute the
\* node does not have is passed over
RECURSIVE set_mat_attrs(_, _, _)
set_mat_attrs(node, attrs, i) ==
    IF i > Len(attrs.v) THEN node
    ELSE set_mat_attrs(
           [node EXCEPT !.attr = [j \in DOMAIN node.attr |->
                                    IF node.attr[j][1] = attrs.v[i][1]
                                    THEN <<attrs.v[i][1], attrs.v[i][2]>>
                                    ELSE node.attr[j]]],
           attrs, i + 1)

\* node.inputs[key].default_value = value, by the name of the socket and,
\* when the node has no socket of that name, by the stored socket index
RECURSIVE set_mat_inputs(_, _, _, _)
set_mat_inputs(node, ntype, inputs, i) ==
    IF i > Len(inputs.v) THEN [exc |-> "", node |-> node]
    ELSE LET key == inputs.v[i][1]
             stored == inputs.v[i][2]
             named == {j \in DOMAIN node.inputs : node.inputs[j].name = key}
             value == IF ntype = "GROUP" THEN stored ELSE stored.v[1]
             Set(j) == set_mat_inputs([node EXCEPT !.inputs[j].value = value],
                                      ntype, inputs, i + 1)
         IN IF ntype # "GROUP" /\ (stored.t \notin {"list", "tuple"} \/ stored.v = <<>>)
            THEN [exc |-> "TypeError", node |-> node]
            ELSE IF named # {} THEN Set(CHOOSE j \in named : \A n \in named : j <= n)
            ELSE IF ntype = "GROUP" THEN [exc |-> "TypeError", node |-> node]
            ELSE IF Len(stored.v) < 2 \/ stored.v[2].t # "int"
            THEN [exc |-> "IndexError", node |-> node]
            ELSE IF IntOfText(stored.v[2].v) + 1 \notin DOMAIN node.inputs
            THEN [exc |-> "IndexError", node |-> node]
            ELSE Set(IntOfText(stored.v[2].v) + 1)

\* get_mat_group_groups(mat_name, groups): the node that the chain of
\* nodes['<name>'] lookups reaches gets the stored attributes and inputs
RECURSIVE set_mat_in_groups(_, _, _, _)
set_mat_in_groups(node_tree, groups, ntype, data) ==
    LET found == {j \in DOMAIN node_tree.nodes : node_tree.nodes[j].name = Head(groups)}
        at == CHOOSE j \in found : TRUE
        Inner(r) == [exc |-> r.exc,
                     tree |-> [node_tree EXCEPT !.nodes[at].node_tree = r.tree]]
        Here(r) == [exc |-> r.exc, tree |-> [node_tree EXCEPT !.nodes[at] = r.node]]
    IN IF found = {} THEN [exc |-> "KeyError", tree |-> node_tree]
       ELSE IF Len(groups) = 1
       THEN Here(set_mat_inputs(set_mat_attrs(node_tree.nodes[at], GetV(data, "attr"), 1),
                                ntype, GetV(data, "inputs"), 1))
       ELSE Inner(set_mat_in_groups(node_tree.nodes[at].node_tree, Tail(groups), ntype, data))

\* set_mat_node_data: the records of the ValuesRecord from number k on; a
\* record is read as mat_node['name'], ['node'], ['type'], ['data']
RECURSIVE set_mat_node_data(_, _, _)
set_mat_node_data(node_tree, mat_data, k) ==
    IF k > Len(mat_data.v) THEN [exc |-> "", tree |-> node_tree]
    ELSE LET mat_node == mat_data.v[k]
             name == GetV(mat_node, "name").v
             addr == GetV(mat_node, "node")
             groups == IF addr = NoneValue THEN <<name>> ELSE <<dumps(addr, FALSE), name>>
             Rest(r) == IF r.exc # "" THEN r ELSE set_mat_node_data(r.tree, mat_data, k + 1)
         IN IF \E key \in {"name", "node", "type", "data"} : ~HasKey(mat_node, key)
            THEN [exc |-> "KeyError", tree |-> node_tree]
            ELSE Rest(set_mat_in_groups(node_tree, groups, GetV(mat_node, "type").v,
                                        GetV(mat_node, "data")))

\* the loop over ntd of set_mat_preset_data_by_preset_id: the special nodes
set_mat_special_nodes(file, node_tree, ntd, nst) ==
    LET nd == NodeData(file, ntd, nst, 1, 1)
    IN IF nd.exc # "" THEN [exc |-> nd.exc, tree |-> node_tree]
       ELSE set_node_presets(node_tree, nd.ndata, 1)

\* set_mat_preset_data_by_preset_id(file, id_, material): the material as
\* the call leaves it, and the exception that ended the call
set_mat_preset_data_by_preset_id(file, id_, material) ==
    LET mats == file.PRESETS["MATERIALS"]
        trans == mats.TRANSACTIONS[id_].data
        Done(r) == [exc |-> r.exc, material |-> [material EXCEPT !.node_tree = r.tree]]
        Nodes(r) ==
            IF r.exc # "" THEN r
            ELSE set_mat_special_nodes(file, r.tree, mats.INFO[trans[1]].data,
                                       file.NODE_STACK[trans[3]].data)
    IN IF id_ \notin DOMAIN mats.TRANSACTIONS THEN [exc |-> "KeyError", material |-> material]
       ELSE IF \/ trans[1] \notin DOMAIN mats.INFO
               \/ trans[3] \notin DOMAIN file.NODE_STACK
               \/ trans[2] \notin DOMAIN mats.DATA
       THEN [exc |-> "KeyError", material |-> material]
       ELSE Done(Nodes(set_mat_node_data(material.node_tree, mats.DATA[trans[2]].data, 1)))

\* get_mat_presets: the ids the preset list of a material offers
get_mat_presets(file, material) ==
    {id_ \in DOMAIN file.PRESETS["MATERIALS"].TRANSACTIONS :
        file.PRESETS["MATERIALS"].TRANSACTIONS[id_].data[1]
            = hash_dict(get_all_nodes(material.node_tree))}


(***************************************************************************)
(* State machine.  Installation A (archive) is saved to, renamed in,       *)
(* exported from and imported into; installation B (other) is a second     *)
(* set-up store that documents are imported into.  log holds one record    *)
(* per operation that ran, docs the export documents on disk.              *)
(***************************************************************************)
Last == log[Len(log)]

\* one call modify_in_zip(zip_file, 'Presets.hfdb', func, *args) of an
\* operator; data is the outcome of func(archive, *args)
Call(limit, op, input, name, data) ==
    /\ Len(log) < limit
    /\ LET m == modify_in_zip(archive, data)
       IN /\ archive' = m.archive
          /\ log' = Append(log, [op |-> op, input |-> input, name |-> name,
                                 exc |-> m.exc, touched |-> m.touched,
                                 raised |-> m.raised, none |-> m.none, data |-> m.data,
                                 changed |-> m.archive # archive])
    /\ UNCHANGED <<other, docs, hin, hout>> /\ UNCHANGED <<zipvars, scene, addon>>

GNSave(file, g, name) ==
    geometry_node_preset_processing(file, NodeGroup(g.topo, g.curve), Modifier(g.s1, g.s2),
                                    name, "USER")
MatSave(file, m, name) ==
    material_preset_processing(file, Material(m.topo, m.rough, m.color), name, "USER")

SaveNodeGroup ==
    \E g \in GNInputs, name \in Names :
        Call(MaxOps, "save_node_group", g, name, GNSave(archive, g, name))

SaveMat ==
    \E m \in MatInputs, name \in Names :
        Call(MaxOps, "save_mat", m, name, MatSave(archive, m, name))

SavePhysics ==
    \E ptype \in PhysicsTypes, mass \in Masses, name \in OtherNames :
        Call(MaxOps, "save_phy", [ptype |-> ptype, mass |-> mass], name,
             physics_preset_processing(archive, ptype, PhysicsData(mass), name))

SaveCollision ==
    \E damping \in Masses, name \in OtherNames :
        Call(MaxOps, "save_col", [damping |-> damping], name,
             collision_preset_processing(archive, CollisionData(damping), name))

SaveHair ==
    \E strands \in Strands, name \in OtherNames :
        Call(MaxOps, "save_hair", [strands |-> strands], name,
             hair_preset_processing(archive, HairData(strands), name))

SaveNode ==
    \E n \in NodeInputs, name \in OtherNames :
        Call(MaxOps, "save_node", n, name,
             node_preset_processing(archive, n.node, NodeGroup(n.topo, n.curve), name))

SaveModStack ==
    \E stack \in Stacks, name \in OtherNames :
        Call(MaxOps, "save_mod_stack", [stack |-> stack], name,
             modifier_stack_preset_processing(archive, StackObject(stack), name, FALSE))

\* the tables of the cloth, soft-body and collision presets
PhysicsTables == {"/PHYSICS/CLOTH", "/PHYSICS/SOFT_BODY", "/PHYSICS/COLLISION"}

\* the pfile that the rename operator of a table passes to
\* change_preset_name: the physics and collision operators pass
\* f'/PRESETS/{ptype}' and '/PRESETS/COLLISION'
RenamePath(table) ==
    CASE table = "/PHYSICS/CLOTH" -> "/PRESETS/CLOTH"
      [] table = "/PHYSICS/SOFT_BODY" -> "/PRESETS/SOFT_BODY"
      [] table = "/PHYSICS/COLLISION" -> "/PRESETS/COLLISION"
      [] OTHER -> table

\* the physics and collision operators cancel when the new name is among
\* the names of get_phy_preset_names / get_col_preset_names
RenameAllowed(file, table, name) ==
    table \in PhysicsTables
        => name \notin get_names(TableAt(file, table))

\* a rename operator run on a store: the id is the one selected in the list
\* of the operator's table
RenameCall(limit, table, id_, name) ==
    /\ RenameAllowed(archive, table, name)
    /\ Call(limit, "rename", [table |-> table, pfile |-> RenamePath(table), id |-> id_], name,
            change_preset_name(archive, RenamePath(table), id_, name))

Rename ==
    \E table \in TablePaths, name \in Names :
        \E id_ \in DOMAIN TableAt(archive, table) : RenameCall(MaxOps, table, id_, name)

\* the archives of a preset folder (init_preset, do_presets_exists)
Archives == {"Presets.zip", "User_Materials.zip", "User_Geo_Nodes.zip"}
Folders == {"Documents", "Library"}

\* the add-on after Set Up Preset has run on the default preset path
SetUpAddon ==
    [preset_path |-> "Documents", is_preset_path_set |-> TRUE,
     pip_installed |-> TRUE, missing |-> FALSE,
     disk |-> [f \in Folders |-> IF f = "Documents" THEN Archives ELSE {}],
     writable |-> Folders]

\* the object before any modifier was added
NoMaterial == [name |-> NoName, node_tree |-> NoTree]
FreshScene == [modifiers |-> <<>>, active |-> 0, material |-> NoMaterial]

Init ==
    /\ archive = FreshStore
    /\ other = FreshStore
    /\ log = <<>>
    /\ docs = {}
    /\ hin = <<>>
    /\ hout = <<>>
    /\ ZipInit
    /\ scene = FreshScene
    /\ addon = SetUpAddon

Next ==
    \/ SaveNodeGroup
    \/ SaveMat
    \/ SavePhysics
    \/ SaveCollision
    \/ SaveHair
    \/ SaveNode
    \/ SaveModStack
    \/ Rename

Spec == Init /\ [][Next]_vars

\* ZipSpec: invocations of modify_in_zip on one archive, step by step
ZipSpec == Init /\ [][ZipNext]_vars

(***************************************************************************)
(* SeriesSpec: geometry-node presets saved and renamed under names that    *)
(* share a base, long enough for the DATA names to collide.                *)
(***************************************************************************)
SeriesSave ==
    \E g \in SeriesInputs, name \in SeriesNames :
        Call(MaxSeriesOps, "save_node_group", g, name, GNSave(archive, g, name))

SeriesRename ==
    \E id_ \in DOMAIN archive.PRESETS["GEOMETRY_NODES"].TRANSACTIONS, name \in SeriesNames :
        RenameCall(MaxSeriesOps, "/PRESETS/GEOMETRY_NODES/TRANSACTIONS", id_, name)

SeriesNext ==
    \/ SeriesSave
    \/ SeriesRename

SeriesSpec == Init /\ [][SeriesNext]_vars

(***************************************************************************)
(* PortSpec: presets saved in installation A, exported to a document and   *)
(* imported into A or into installation B.                                 *)
(***************************************************************************)
PortSaveNodeGroup ==
    \E g \in PortInputs, name \in Names :
        Call(MaxPortOps, "save_node_group", g, name, GNSave(archive, g, name))

PortSaveMat ==
    \E m \in MatInputs, name \in Names :
        Call(MaxPortOps, "save_mat", m, name, MatSave(archive, m, name))

PortSavePhysics ==
    \E mass \in Masses, name \in OtherNames :
        Call(MaxPortOps, "save_phy", [ptype |-> "CLOTH", mass |-> mass], name,
             physics_preset_processing(archive, "CLOTH", PhysicsData(mass), name))

PortSaveHair ==
    \E strands \in Strands, name \in OtherNames :
        Call(MaxPortOps, "save_hair", [strands |-> strands], name,
             hair_preset_processing(archive, HairData(strands), name))

PortSaveModStack ==
    \E stack \in Stacks, name \in OtherNames :
        Call(MaxPortOps, "save_mod_stack", stack, name,
             modifier_stack_preset_processing(archive, StackObject(stack), name, FALSE))

\* what the export operators can be run on: a stored preset of any table
ExportTargets(file) ==
    {[ftype |-> "Material", id |-> i, ptype |-> ""] :
        i \in DOMAIN file.PRESETS["MATERIALS"].TRANSACTIONS}
    \cup {[ftype |-> "Geometry_Node", id |-> i, ptype |-> ""] :
             i \in DOMAIN file.PRESETS["GEOMETRY_NODES"].TRANSACTIONS}
    \cup {[ftype |-> "Physics", id |-> i, ptype |-> "CLOTH"] : i \in DOMAIN file.PHYSICS["CLOTH"]}
    \cup {[ftype |-> "Physics", id |-> i, ptype |-> "SOFT_BODY"] :
             i \in DOMAIN file.PHYSICS["SOFT_BODY"]}
    \cup {[ftype |-> "Collision", id |-> i, ptype |-> ""] : i \in DOMAIN file.PHYSICS["COLLISION"]}
    \cup {[ftype |-> "Hair", id |-> i, ptype |-> ""] : i \in DOMAIN file.POINTS}
    \cup {[ftype |-> "Node", id |-> i, ptype |-> ""] : i \in DOMAIN file.NODES}
    \cup {[ftype |-> "Modifier_Stack", id |-> i, ptype |-> ""] : i \in DOMAIN file.MODIFIER_STACK}

\* the document {'META': {'TYPE': ...}, 'DATA': data} of a target
ExportedDocument(file, t) ==
    CASE t.ftype = "Material" -> ExportDocument(file, "MATERIALS", t.id, <<"Scene">>)
      [] t.ftype = "Geometry_Node" -> ExportDocument(file, "GEOMETRY_NODES", t.id, <<"Scene">>)
      [] OTHER ->
         [META |-> [NAME |-> <<"Scene">>, TYPE |-> t.ftype],
          DATA |-> CASE t.ftype = "Physics" ->
                           export_phy_preset_data_by_preset_id(file, t.id, t.ptype)
                     [] t.ftype = "Collision" -> export_col_preset_data_by_preset_id(file, t.id)
                     [] t.ftype = "Hair" -> export_hair_preset_data_by_preset_id(file, t.id)
                     [] t.ftype = "Node" -> export_node_preset_data_by_preset_id(file, t.id)
                     [] t.ftype = "Modifier_Stack" ->
                           export_mod_stack_preset_data_by_preset_id(file, t.id)]

\* the export operators: the document of a stored preset is written to disk
Export ==
    /\ Len(log) < MaxPortOps
    /\ Cardinality(docs) < MaxDocs
    /\ \E t \in ExportTargets(archive) :
            /\ docs' = docs \cup {ExportedDocument(archive, t)}
            /\ log' = Append(log, [op |-> "export", input |-> t])
    /\ UNCHANGED <<archive, other, hin, hout>> /\ UNCHANGED <<zipvars, scene, addon>>

\* import_func_dict()[ftype]
import_func(file, ftype, preset_data) ==
    CASE ftype = "Material" -> import_preset_data(file, "MATERIALS", preset_data)
      [] ftype = "Geometry_Node" -> import_preset_data(file, "GEOMETRY_NODES", preset_data)
      [] ftype = "Physics" -> import_phy_data(file, preset_data)
      [] ftype = "Collision" -> import_collision_data(file, preset_data)
      [] ftype = "Hair" -> import_hair_data(file, preset_data)
      [] ftype = "Node" -> import_node_preset_data(file, preset_data)
      [] ftype = "Modifier_Stack" -> import_mod_stack_preset_data(file, preset_data)

\* import_preset_settings_file(zip_file, data_file): the tuple that
\* modify_in_zip returned is unpacked, which raises TypeError on None
import_preset_settings_file(zip_file, data_dict) ==
    LET Unpack(m) == [m EXCEPT !.raised = IF m.none THEN "TypeError" ELSE ""]
    IN Unpack(modify_in_zip(zip_file,
                            import_func(zip_file, data_dict.META.TYPE, data_dict.DATA)))

\* the import operator run in installation A or B; m is the outcome of
\* import_preset_settings_file on that installation's archive
ImportAt(site, d, zip_file, m) ==
    /\ archive' = IF site = "A" THEN m.archive ELSE archive
    /\ other' = IF site = "B" THEN m.archive ELSE other
    /\ log' = Append(log, [op |-> "import", input |-> [site |-> site, doc |-> d],
                           name |-> d.DATA.name,
                           exc |-> m.exc, touched |-> m.touched,
                           raised |-> m.raised, none |-> m.none, data |-> m.data,
                           changed |-> m.archive # zip_file])

Import ==
    /\ Len(log) < MaxPortOps
    /\ \E d \in docs :
         \/ ImportAt("A", d, archive, import_preset_settings_file(archive, d))
         \/ ImportAt("B", d, other, import_preset_settings_file(other, d))
    /\ UNCHANGED <<docs, hin, hout>> /\ UNCHANGED <<zipvars, scene, addon>>

\* a rename operator run on installation A
PortRename ==
    \E table \in TablePaths, name \in {<<"Bar">>} :
        \E id_ \in DOMAIN TableAt(archive, table) : RenameCall(MaxPortOps, table, id_, name)

PortNext ==
    \/ PortSaveNodeGroup
    \/ PortSaveMat
    \/ PortSavePhysics
    \/ PortSaveHair
    \/ PortSaveModStack
    \/ PortRename
    \/ Export
    \/ Import

PortSpec == Init /\ [][PortNext]_vars

\* an operation that does not go through modify_in_zip: the archive is read
LoadCall(limit, op, input, exc, ob) ==
    /\ Len(log) < limit
    /\ scene' = ob
    /\ log' = Append(log, [op |-> op, input |-> input, name |-> NoName,
                           exc |-> exc, touched |-> FALSE, raised |-> "",
                           none |-> FALSE, data |-> NoReturn, changed |-> FALSE])
    /\ UNCHANGED <<archive, other, docs, hin, hout, zipvars, addon>>

(***************************************************************************)
(* MatSpec: the material of the active object is edited, saved as preset   *)
(* and loaded from a preset.                                               *)
(***************************************************************************)
MaxMatOps == 2          \* operations on the archive in one run of MatSpec

LiveMaterials == [topo : {"Skin", "Mixed"}, rough : {"0.5", "0.7"}, color : {1, 2}]

\* the user gives the object a material, or edits the material it has
EditMaterial ==
    \E m \in LiveMaterials :
        /\ Len(log) < MaxMatOps
        /\ scene.material # Material(m.topo, m.rough, m.color)
        /\ scene.material.name \in {NoName, <<m.topo>>}
        /\ scene' = [scene EXCEPT !.material = Material(m.topo, m.rough, m.color)]
        /\ UNCHANGED <<archive, other, log, docs, hin, hout, zipvars, addon>>

MatSpecSave ==
    \E name \in Names :
        /\ scene.material # NoMaterial
        /\ Call(MaxMatOps, "save_mat", [scene |-> scene], name,
                material_preset_processing(archive, scene.material, name, "USER"))

\* HAIRFACTORY_OT_load_mat: id_ is an entry of the preset list of the
\* material; get_from_zip swallows what the load raises
MatSpecLoad ==
    /\ scene.material # NoMaterial
    /\ \E id_ \in get_mat_presets(archive, scene.material) :
          LET r == set_mat_preset_data_by_preset_id(archive, id_, scene.material)
          IN LoadCall(MaxMatOps, "load_mat", [scene |-> scene, id |-> id_], r.exc,
                      [scene EXCEPT !.material = r.material])

MatNext ==
    \/ EditMaterial
    \/ MatSpecSave
    \/ MatSpecLoad

MatSpec == Init /\ [][MatNext]_vars

(***************************************************************************)
(* LoadSpec: the active object with its modifier stack.  Node groups are   *)
(* added to the stack, saved as presets and as stack presets, and presets  *)
(* are loaded back onto the active modifier or as a whole stack.           *)
(***************************************************************************)
MaxLoadOps == 2         \* operations on the archive in one run of LoadSpec
MaxModifiers == 2       \* modifiers the user adds to the object

\* a modifier the user adds: [topo, curve, s1, s2, load_type]
LoadInputs ==
    [topo : {"Curve"}, curve : {1}, s1 : {1}, s2 : {"Head"}, load_type : {"FULL"}]
    \cup [topo : {"Curve"}, curve : {2}, s1 : {0}, s2 : {"Head"}, load_type : {"NODE_GROUP"}]
    \cup [topo : {"Tuft", "Clump"}, curve : {1}, s1 : {1}, s2 : {"Head"},
          load_type : {"FULL"}]

\* the user adds a geometry-nodes modifier, sets its properties and the load
\* type of its node group; the new modifier is the active one
AddModifier ==
    \E g \in LoadInputs :
        /\ Len(scene.modifiers) < MaxModifiers
        /\ Len(log) < MaxLoadOps
        /\ scene' = [scene EXCEPT !.modifiers = Append(scene.modifiers,
                                          [type |-> "NODES",
                                           node_group |-> NodeGroup(g.topo, g.curve),
                                           values |-> Modifier(g.s1, g.s2),
                                           load_type |-> g.load_type]),
                                  !.active = Len(scene.modifiers) + 1]
        /\ UNCHANGED <<archive, other, log, docs, hin, hout, zipvars, addon>>

\* the user types another value into the property Socket_1 of the active
\* modifier
SetSocket ==
    \E s1 \in 0..MaxSocketValue :
        /\ scene.active # 0
        /\ Len(log) < MaxLoadOps
        /\ GetV(scene.modifiers[scene.active].values, "Socket_1") # PyInt(s1)
        /\ scene' = [scene EXCEPT !.modifiers[scene.active].values =
                                     SetItem(@, "Socket_1", PyInt(s1))]
        /\ UNCHANGED <<archive, other, log, docs, hin, hout, zipvars, addon>>

\* MODIFIER_OT_modifier_up: the active modifier moves one place up
ModifierUp ==
    /\ scene.active > 1
    /\ Len(log) < MaxLoadOps
    /\ scene' = [scene EXCEPT !.modifiers = [scene.modifiers EXCEPT
                                   ![scene.active - 1] = scene.modifiers[scene.active],
                                   ![scene.active] = scene.modifiers[scene.active - 1]],
                              !.active = scene.active - 1]
    /\ UNCHANGED <<archive, other, log, docs, hin, hout, zipvars, addon>>

LoadSaveNodeGroup ==
    \E name \in {<<"Foo">>} :
        /\ scene.active # 0
        /\ LET modifier == scene.modifiers[scene.active]
           IN Call(MaxLoadOps, "save_node_group", [scene |-> scene], name,
                   geometry_node_preset_processing(archive, modifier.node_group,
                                                   modifier.values, name,
                                                   modifier.node_group.hf_user))

LoadSaveModStack ==
    \E name \in Names :
        /\ scene.modifiers # <<>>
        /\ Call(MaxLoadOps, "save_mod_stack", [scene |-> scene], name,
                modifier_stack_preset_processing(archive, scene, name, FALSE))

\* HAIRFACTORY_OT_load_node_group: id_ is an entry of the preset list of the
\* node group of the active modifier
LoadNodeGroup ==
    /\ scene.active # 0
    /\ \E id_ \in get_node_group_presets(archive, scene.modifiers[scene.active].node_group) :
          LET r == set_node_group_preset_data_by_preset_id(
                       archive, scene.modifiers[scene.active], id_)
          IN LoadCall(MaxLoadOps, "load_node_group", [scene |-> scene, id |-> id_], r.exc,
                      [scene EXCEPT !.modifiers[scene.active] = r.modifier])

\* HAIRFACTORY_OT_load_mod_stack: id_ is an entry of the list of stack presets
LoadModStack ==
    \E id_ \in DOMAIN archive.MODIFIER_STACK :
        LET r == load_mod_stack_by_preset_id(archive, scene, id_)
        IN LoadCall(MaxLoadOps, "load_mod_stack", [scene |-> scene, id |-> id_], r.exc, r.ob)

LoadNext ==
    \/ AddModifier
    \/ SetSocket
    \/ ModifierUp
    \/ LoadSaveNodeGroup
    \/ LoadSaveModStack
    \/ LoadNodeGroup
    \/ LoadModStack

LoadSpec == Init /\ [][LoadNext]_vars

(***************************************************************************)
(* HashSpec: hash_dict and hash_list applied to pairs of inputs.           *)
(*   hin  = <<x, y>>, the two arguments                                    *)
(*   hout = <<function name, digest of x, digest of y>>                    *)
(***************************************************************************)
MaxKeys == 2            \* keys of a hashed mapping
MaxElems == 2           \* elements of a hashed list

HashKeys == {"a", "b", "c"}
HashLeaves == {PyInt(1), PyList(<<PyInt(1), PyInt(2)>>),
               PyDict(<< <<"a", PyInt(1)>>, <<"b", PyInt(2)>> >>),
               PyDict(<< <<"b", PyInt(2)>>, <<"a", PyInt(1)>> >>)}

\* the mappings: items in insertion order, no key twice
HashDicts ==
    {PyDict(items) : items \in
        {q \in UNION {[1..n -> HashKeys \X HashLeaves] : n \in 0..MaxKeys} :
            \A i, j \in DOMAIN q : i # j => q[i][1] # q[j][1]}}

HashElems == {PyInt(1), PyInt(2), PyStr("x"), PyList(<<PyInt(1)>>)}
HashSeqs == UNION {[1..n -> HashElems] : n \in 0..MaxElems}

\* graphs of three nodes whose two links run through the sockets w:
\* <<from-socket, to-socket>> of the first link, then of the second
MaxSocket == 1          \* sockets of a node are numbered 0..MaxSocket
Wirings == (0..MaxSocket) \X (0..MaxSocket) \X (0..MaxSocket) \X (0..MaxSocket)
WiredGraph(w) ==
    [key |-> "Wired", name |-> <<"Wired">>, hf_user |-> "USER", items |-> Interface,
     nodes |-> <<Node("GROUP_INPUT", "Group Input"),
                 Node("MATH", "Math"),
                 Node("GROUP_OUTPUT", "Group Output")>>,
     links |-> <<Link(0, 1, w[1], w[2]), Link(1, 2, w[3], w[4])>>]

\* python's == on the modelled values: mappings compare without order
RECURSIVE PyEq(_, _)
PyEq(x, y) ==
    IF IsDict(x) /\ IsDict(y)
    THEN /\ Keys(x) = Keys(y)
         /\ \A k \in Keys(x) : PyEq(GetV(x, k), GetV(y, k))
    ELSE x = y

HashInit ==
    /\ archive = FreshStore
    /\ other = FreshStore
    /\ log = <<>>
    /\ docs = {}
    /\ \/ \E x \in HashDicts : \E y \in {d \in HashDicts : PyEq(x, d)} : hin = <<x, y>>
       \/ \E q \in HashSeqs : hin = <<PyList(q), PyTuple(q)>>
       \/ \E x \in HashDicts : \E y \in {d \in HashDicts : PyEq(x, d)} :
             hin = <<PyList(<<x>>), PyList(<<y>>)>>
       \/ \E a \in Wirings, b \in Wirings :
             hin = <<[t |-> "graph", v |-> WiredGraph(a)], [t |-> "graph", v |-> WiredGraph(b)]>>
    /\ hout = <<>>
    /\ ZipInit
    /\ scene = FreshScene
    /\ addon = SetUpAddon

HashDict ==
    /\ hout = <<>>
    /\ IsDict(hin[1])
    /\ hout' = <<"hash_dict", hash_dict(hin[1]), hash_dict(hin[2])>>
    /\ UNCHANGED <<archive, other, log, docs, hin>> /\ UNCHANGED <<zipvars, scene, addon>>

HashList ==
    /\ hout = <<>>
    /\ hin[1].t \in {"list", "tuple"}
    /\ hout' = <<"hash_list", hash_list(hin[1]), hash_list(hin[2])>>
    /\ UNCHANGED <<archive, other, log, docs, hin>> /\ UNCHANGED <<zipvars, scene, addon>>

\* mat_id / gn_id = hash_dict(get_all_nodes(node_tree))
HashGraph ==
    /\ hout = <<>>
    /\ hin[1].t = "graph"
    /\ hout' = <<"get_all_nodes", hash_dict(get_all_nodes(hin[1].v)),
                 hash_dict(get_all_nodes(hin[2].v))>>
    /\ UNCHANGED <<archive, other, log, docs, hin>> /\ UNCHANGED <<zipvars, scene, addon>>

HashNext ==
    \/ HashDict
    \/ HashList
    \/ HashGraph

HashSpec == HashInit /\ [][HashNext]_vars

(***************************************************************************)
(* Properties                                                              *)
(***************************************************************************)
GraphSaves == {"save_node_group", "save_mat"}
ClassOf(op) == IF op = "save_mat" THEN "MATERIALS" ELSE "GEOMETRY_NODES"

\* C8: hash_dict returns the same digest for two mappings that hold the
\* same key/value pairs, whatever the insertion order of the keys (nested
\* mappings included), and hash_list returns the same digest for a list and
\* for a tuple that hold the same elements in the same order.
C8_SameDigest ==
    hout # <<>> =>
        /\ (hout[1] = "hash_dict" /\ PyEq(hin[1], hin[2])) => hout[2] = hout[3]
        /\ (hout[1] = "hash_list" /\ hin[1].v = hin[2].v) => hout[2] = hout[3]

\* two mappings with the same pairs inserted in different orders were hashed
C8_Witness ==
    /\ hout # <<>>
    /\ hout[1] = "hash_dict"
    /\ Len(hin[1].v) = 2
    /\ hin[1].v[1] = hin[2].v[2]
    /\ hin[1].v[2] = hin[2].v[1]
    /\ hout[2] = hout[3]

\* C6: change_preset_name with a new name that is already the display name
\* of a record of that table raises NameExistsError and leaves every
\* display name of the table, the renamed record's included, unchanged.
C6_RenameRefused ==
    [][(/\ Len(log') = Len(log) + 1
        /\ Last'.op = "rename"
        /\ Last'.name \in get_names(TableAt(archive, Last'.input.table)))
       => (/\ Last'.exc = "NameExistsError"
           /\ ~Last'.touched
           /\ \A id_ \in DOMAIN TableAt(archive, Last'.input.table) :
                 TableAt(archive', Last'.input.table)[id_].name
                    = TableAt(archive, Last'.input.table)[id_].name)]_vars

\* a rename to the name of another record of the table was refused
C6_Witness ==
    /\ log # <<>>
    /\ Last.op = "rename"
    /\ Last.exc = "NameExistsError"
    /\ \E id_ \in DOMAIN TableAt(archive, Last.input.table) :
          /\ id_ # Last.input.id
          /\ TableAt(archive, Last.input.table)[id_].name = Last.name

\* C1 as stated: a material or geometry-node save of the same graph in
\* the same state as the save before it, under the same proposed name,
\* returns created = false with the PresetTransaction id of the first save
\* and leaves the store unchanged.
C1_SecondSaveReturns ==
    \A i \in 1..(Len(log) - 1) :
        (/\ log[i].op \in GraphSaves
         /\ log[i + 1].op = log[i].op
         /\ log[i + 1].input = log[i].input
         /\ log[i + 1].name = log[i].name
         /\ log[i].exc = "" /\ log[i].data.preset_saved)
        => (/\ log[i + 1].exc = ""
            /\ ~log[i + 1].none
            /\ ~log[i + 1].data.preset_saved
            /\ log[i + 1].data.id = log[i].data.id
            /\ ~log[i + 1].changed)

\* C1, amended: the second of two successive material or geometry-node
\* saves of the same graph in the same state under the same proposed name
\* raises NameExistsError (the name check precedes the content check); it
\* creates nothing and the store is unchanged.
C1_SecondSaveRefused ==
    \A i \in 1..(Len(log) - 1) :
        (/\ log[i].op \in GraphSaves
         /\ log[i + 1].op = log[i].op
         /\ log[i + 1].input = log[i].input
         /\ log[i + 1].name = log[i].name
         /\ log[i].exc = "" /\ log[i].data.preset_saved)
        => (/\ log[i + 1].exc = "NameExistsError"
            /\ ~log[i + 1].touched
            /\ ~log[i + 1].changed)

\* the same geometry-node state was saved twice in a row under one name
C1_Witness ==
    /\ Len(log) = 2
    /\ log[1].op = "save_node_group" /\ log[2].op = "save_node_group"
    /\ log[2].input = log[1].input
    /\ log[2].name = log[1].name
    /\ log[1].exc = "" /\ log[1].data.preset_saved
    /\ log[2].exc = "NameExistsError"

\* the PresetTransaction table a material / geometry-node save writes to
TransactionsOf(file, op) == file.PRESETS[ClassOf(op)].TRANSACTIONS

\* C5 as stated: saving a graph whose topology, values and special-node
\* state equal those of a stored PresetTransaction, under a different
\* top-level name that is not yet used, fails with NameExistsError.
C5_DuplicateRefused ==
    [][(/\ Len(log') = Len(log) + 1
        /\ Last'.op \in GraphSaves
        /\ Last'.name \notin get_names(TransactionsOf(archive, Last'.op))
        /\ \E i \in DOMAIN log :
              /\ log[i].op = Last'.op
              /\ log[i].input = Last'.input
              /\ log[i].name # Last'.name
              /\ log[i].exc = "")
       => Last'.exc = "NameExistsError"]_vars

\* C5, amended: such a save raises nothing: it returns created = false
\* with the display name of the stored PresetTransaction, creates no
\* record and leaves the store unchanged.
C5_DuplicateSurfaced ==
    [][\A i \in DOMAIN log :
        (/\ Len(log') = Len(log) + 1
         /\ Last'.op \in GraphSaves
         /\ Last'.name \notin get_names(TransactionsOf(archive, Last'.op))
         /\ log[i].op = Last'.op
         /\ log[i].input = Last'.input
         /\ log[i].name # Last'.name
         /\ log[i].exc = "")
        => (/\ Last'.exc = ""
            /\ ~Last'.data.preset_saved
            /\ Last'.data.id = log[i].data.id
            /\ Last'.data.pname = TransactionsOf(archive, Last'.op)[log[i].data.id].name
            /\ archive' = archive)]_vars

\* a material was saved unchanged under a second, unused name
C5_Witness ==
    /\ Len(log) = 2
    /\ log[1].op = "save_mat" /\ log[2].op = "save_mat"
    /\ log[2].input = log[1].input
    /\ log[2].name # log[1].name
    /\ log[1].exc = "" /\ log[1].data.preset_saved
    /\ log[2].exc = "" /\ ~log[2].data.preset_saved
    /\ log[2].data.pname = log[1].name

AllSaves == {"save_node_group", "save_mat", "save_phy", "save_col", "save_hair",
             "save_node", "save_mod_stack"}
\* the top-level table whose names a save checks the proposed name against
SaveTable(file, op, input) ==
    CASE op \in GraphSaves -> TransactionsOf(file, op)
      [] op = "save_phy" -> file.PHYSICS[input.ptype]
      [] op = "save_col" -> file.PHYSICS["COLLISION"]
      [] op = "save_hair" -> file.POINTS
      [] op = "save_node" -> file.NODES
      [] op = "save_mod_stack" -> file.MODIFIER_STACK

\* C4: a save (material, geometry node group, physics, collision, hair,
\* single node or modifier stack) whose proposed name is already the display
\* name of a record of the target top-level table raises NameExistsError
\* before any record is created: the store is unchanged and no display name
\* is altered.
C4_TakenNameRefused ==
    [][(/\ Len(log') = Len(log) + 1
        /\ Last'.op \in AllSaves
        /\ Last'.name \in get_names(SaveTable(archive, Last'.op, Last'.input)))
       => (/\ Last'.exc = "NameExistsError"
           /\ ~Last'.touched
           /\ archive' = archive)]_vars

\* C10: an exception raised by the mutation function run inside
\* modify_in_zip propagates to the caller of modify_in_zip.
C10_ExceptionPropagates ==
    \A i \in DOMAIN log : log[i].exc # "" => log[i].raised = log[i].exc

\* the triple [GraphIdentity id, ValuesRecord id, NodeStackRecord id] of the
\* PresetTransaction that the save log[i] returned
TripleOf(i) == TransactionsOf(archive, log[i].op)[log[i].data.id].data

\* "Curve" and "Copy" hold the same node types at the same addresses with
\* the same links
SameTopology == {"Curve", "Copy"}

\* C3 as stated: two graphs with the same node-type sequence, the same node
\* addresses and the same links but different parameter values get the same
\* GraphIdentity id and two different ValuesRecord ids when both are saved.
C3_DistinctValuesIds ==
    \A i, j \in DOMAIN log :
        (/\ i < j
         /\ log[i].op = "save_node_group" /\ log[j].op = "save_node_group"
         /\ log[i].exc = "" /\ log[j].exc = ""
         /\ log[i].input.topo \in SameTopology /\ log[j].input.topo \in SameTopology
         /\ <<log[i].input.s1, log[i].input.s2>> # <<log[j].input.s1, log[j].input.s2>>)
        => (/\ TripleOf(i)[1] = TripleOf(j)[1]
            /\ TripleOf(i)[2] # TripleOf(j)[2])

\* C3, amended: such graphs get the same GraphIdentity id, kept in one INFO
\* record; their ValuesRecord ids differ exactly when the value of a recorded
\* exposed socket differs.  Sockets of geometry, object and material type
\* are not recorded, nor is the state of the special nodes, so graphs that
\* differ in those alone share one ValuesRecord id.
C3_ValuesIdsByRecordedSockets ==
    \A i, j \in DOMAIN log :
        (/\ i < j
         /\ log[i].op = "save_node_group" /\ log[j].op = "save_node_group"
         /\ log[i].exc = "" /\ log[j].exc = ""
         /\ log[i].input.topo \in SameTopology /\ log[j].input.topo \in SameTopology)
        => (/\ TripleOf(i)[1] = TripleOf(j)[1]
            /\ TripleOf(i)[1] \in DOMAIN archive.PRESETS["GEOMETRY_NODES"].INFO
            /\ (TripleOf(i)[2] # TripleOf(j)[2]) <=> (log[i].input.s1 # log[j].input.s1))

\* a node group and its renamed duplicate were saved with different values
\* of Socket_1
C3_Witness ==
    /\ Len(log) = 2
    /\ log[1].op = "save_node_group" /\ log[2].op = "save_node_group"
    /\ log[1].exc = "" /\ log[2].exc = ""
    /\ log[1].input.topo = "Curve" /\ log[2].input.topo = "Copy"
    /\ log[1].input.s1 # log[2].input.s1
    /\ TripleOf(1)[1] = TripleOf(2)[1]
    /\ TripleOf(1)[2] # TripleOf(2)[2]

\* the input of the second save is that of the first with one socket value
\* changed
OneSocketChanged(a, b) ==
    \/ /\ a.op = "save_node_group" /\ b.op = "save_node_group"
       /\ a.input.topo = b.input.topo /\ a.input.curve = b.input.curve
       /\ a.input.s2 = b.input.s2 /\ a.input.s1 # b.input.s1
    \/ /\ a.op = "save_mat" /\ b.op = "save_mat"
       /\ a.input.topo = b.input.topo /\ a.input.color = b.input.color
       /\ a.input.rough # b.input.rough

NoDuplicates(seq) == \A i, j \in DOMAIN seq : seq[i] = seq[j] => i = j

ValuesIdOf(g) ==
    hash_dict(get_node_group_input_data(NodeGroup(g.topo, g.curve), Modifier(g.s1, g.s2)))

\* one more than the highest numeric suffix among the names with the base of
\* name (suffixes that are not numbers do not count), as base.NNN
NextInSeries(name, names) ==
    LET nums == {py_int(n[2]) : n \in {m \in names : m[1] = name[1] /\ Len(m) > 1}}
                   \ {ValueError}
        top == IF nums = {} THEN 0 ELSE CHOOSE m \in nums : \A k \in nums : k <= m
    IN <<name[1], zfill3(top + 1)>>

\* C7: when the suggested name of a new ValuesRecord equals an existing
\* display name of the DATA table, the record is stored as base.NNN, NNN
\* being one more than the highest numeric suffix among the existing names
\* with the same base, zero-padded to three digits; the assigned name
\* differs from every name already in the table.
C7_SeriesName ==
    [][LET data_file == archive.PRESETS["GEOMETRY_NODES"].DATA
           values_id == ValuesIdOf(Last'.input)
       IN (/\ Len(log') = Len(log) + 1
           /\ Last'.op = "save_node_group"
           /\ Last'.name \notin get_names(TransactionsOf(archive, Last'.op))
           /\ values_id \notin DOMAIN data_file
           /\ Last'.name \in get_names(data_file))
          => (/\ values_id \in DOMAIN archive'.PRESETS["GEOMETRY_NODES"].DATA
              /\ archive'.PRESETS["GEOMETRY_NODES"].DATA[values_id].name
                    = NextInSeries(Last'.name, get_names(data_file))
              /\ NextInSeries(Last'.name, get_names(data_file)) \notin get_names(data_file))]_vars

\* C2: exporting a material or geometry-node PresetTransaction and importing
\* the document into an empty store recreates a PresetTransaction with the
\* same id whose triple resolves to a ValuesRecord payload and to NodeRecord
\* payloads equal to the originals, special nodes included.
C2_RoundTrip ==
    [][(/\ Len(log') = Len(log) + 1
        /\ Last'.op = "import"
        /\ Last'.input.site = "B"
        /\ other = FreshStore)
       => LET doc == Last'.input.doc.DATA
              cls == IF Last'.input.doc.META.TYPE = "Material"
                     THEN "MATERIALS" ELSE "GEOMETRY_NODES"
              triple == archive.PRESETS[cls].TRANSACTIONS[doc.id].data
              nst == archive.NODE_STACK[triple[3]].data
          IN /\ Last'.raised = ""
             /\ doc.id \in DOMAIN other'.PRESETS[cls].TRANSACTIONS
             /\ other'.PRESETS[cls].TRANSACTIONS[doc.id].data = triple
             /\ triple[2] \in DOMAIN other'.PRESETS[cls].DATA
             /\ other'.PRESETS[cls].DATA[triple[2]].data = archive.PRESETS[cls].DATA[triple[2]].data
             /\ triple[3] \in DOMAIN other'.NODE_STACK
             /\ other'.NODE_STACK[triple[3]].data = nst
             /\ \A t \in DOMAIN nst.v : \A k \in DOMAIN nst.v[t][2].v :
                   LET nid == nst.v[t][2].v[k].v
                   IN /\ nid \in DOMAIN other'.NODES
                      /\ other'.NODES[nid].data = archive.NODES[nid].data]_vars


\* the invocation p returns in this step
Returns(p) == calls[p].pc # "done" /\ calls'[p].pc = "done"

\* C11: when an invocation of modify_in_zip that ran alone fails at any
\* stage (extraction, the mutation function, recompression), the archive
\* afterwards holds the inner entry exactly as it was before the call.
C11_FailureLeavesArchive ==
    [][\A p \in 1..MaxCalls :
          (Returns(p) /\ calls'[p].returned = "None" /\ calls'[p].alone)
              => zipdisk' = calls'[p].before]_vars

\* C12: when an invocation of modify_in_zip that ran alone returns, whether
\* every stage succeeded or one of them raised, the file extracted beside
\* the archive no longer exists.
C12_TempFileRemoved ==
    [][\A p \in 1..MaxCalls :
          (Returns(p) /\ calls'[p].alone) => extract_file' = Absent]_vars

\* an invocation whose mutation function raised has returned, and the
\* extracted file is gone
C12_Witness ==
    \E p \in 1..MaxCalls :
        /\ calls[p].pc = "done"
        /\ calls[p].alone
        /\ calls[p].exc = "NameExistsError"
        /\ \A q \in 1..MaxCalls : ~Active(q)
        /\ extract_file = Absent

\* the table an export document is imported into
ImportTable(file, d) ==
    CASE d.META.TYPE = "Material" -> file.PRESETS["MATERIALS"].TRANSACTIONS
      [] d.META.TYPE = "Geometry_Node" -> file.PRESETS["GEOMETRY_NODES"].TRANSACTIONS
      [] d.META.TYPE = "Physics" -> file.PHYSICS[d.DATA.ptype]
      [] d.META.TYPE = "Collision" -> file.PHYSICS["COLLISION"]
      [] d.META.TYPE = "Hair" -> file.POINTS
      [] d.META.TYPE = "Node" -> file.NODES
      [] d.META.TYPE = "Modifier_Stack" -> file.MODIFIER_STACK

\* the store the import recorded last in the log was run on
ImportSite(entry) == IF entry.input.site = "A" THEN archive ELSE other

\* C13: importing an export document whose top-level id is already present
\* in the target table raises nothing, leaves the store as it is and
\* returns created = false with the display name the record has.
C13_ImportOfPresentId ==
    [][(/\ Len(log') = Len(log) + 1
        /\ Last'.op = "import"
        /\ Last'.input.doc.DATA.id \in DOMAIN ImportTable(ImportSite(Last'), Last'.input.doc))
       => /\ Last'.exc = ""
          /\ ~Last'.changed
          /\ ~Last'.data.preset_saved
          /\ Last'.data.pname
               = ImportTable(ImportSite(Last'), Last'.input.doc)[Last'.input.doc.DATA.id].name]_vars


(***************************************************************************)
(* Display names of the tables                                             *)
(***************************************************************************)
\* no two records of the table carry the same name attribute
UniqueNames(table) ==
    \A a, b \in DOMAIN table : a # b => table[a].name # table[b].name

\* the tables whose records carry a name attribute, one conjunct per table
NamesUniqueIn(file) ==
    /\ \A c \in Classes : /\ UniqueNames(file.PRESETS[c].INFO)
                          /\ UniqueNames(file.PRESETS[c].DATA)
                          /\ UniqueNames(file.PRESETS[c].TRANSACTIONS)
    /\ UniqueNames(file.NODES)
    /\ UniqueNames(file.MODIFIER_STACK)
    /\ \A p \in PhysicsTypes : UniqueNames(file.PHYSICS[p])
    /\ UniqueNames(file.POINTS)

\* C14: after any sequence of save, import and rename operations no two
\* records of one table (INFO, DATA, NODES, TRANSACTIONS, MODIFIER_STACK,
\* the physics tables, the hair table) share a display name
C14_UniqueDisplayNames == NamesUniqueIn(archive) /\ NamesUniqueIn(other)


(***************************************************************************)
(* References between the tables                                           *)
(***************************************************************************)
\* the NodeRecord ids a NodeStackRecord lists, over all its node types
NodeIdsOf(stack) ==
    UNION {{stack.data.v[i][2].v[j].v : j \in DOMAIN stack.data.v[i][2].v} :
              i \in DOMAIN stack.data.v}

RangeOf(seq) == {seq[i] : i \in DOMAIN seq}

ReferencesResolveIn(file) ==
    /\ \A c \in Classes :
         LET t == file.PRESETS[c]
         IN /\ \A pid \in DOMAIN t.TRANSACTIONS :
                 /\ Len(t.TRANSACTIONS[pid].data) = 3
                 /\ t.TRANSACTIONS[pid].data[1] \in DOMAIN t.INFO
                 /\ t.TRANSACTIONS[pid].data[2] \in DOMAIN t.DATA
                 /\ t.TRANSACTIONS[pid].data[3] \in DOMAIN file.NODE_STACK
            /\ \A g \in DOMAIN t.FULL : RangeOf(t.FULL[g]) \subseteq DOMAIN t.TRANSACTIONS
            /\ \A g \in DOMAIN t.VALUES : RangeOf(t.VALUES[g]) \subseteq DOMAIN t.DATA
    /\ \A ns \in DOMAIN file.NODE_STACK :
         NodeIdsOf(file.NODE_STACK[ns]) \subseteq DOMAIN file.NODES

\* C15: in every archive state reached by committed saves and imports each
\* PresetTransaction names a GraphIdentity of INFO, a ValuesRecord of DATA of
\* its class and a NodeStackRecord of NODE_STACK; every NodeRecord id of a
\* NodeStackRecord is in NODES; every id of FULL[g] is in TRANSACTIONS and
\* every id of VALUES[g] in DATA
C15_ReferencesResolve == ReferencesResolveIn(archive) /\ ReferencesResolveIn(other)

\* C15 witness: an import was committed, the second store holds the imported
\* transaction, and the first holds a saved one whose node stack lists a
\* NodeRecord
C15_Witness ==
    /\ \E i \in DOMAIN log : log[i].op = "import" /\ log[i].exc = "" /\ log[i].changed
    /\ \E c \in Classes : DOMAIN other.PRESETS[c].TRANSACTIONS # {}
    /\ \E ns \in DOMAIN archive.NODE_STACK : NodeIdsOf(archive.NODE_STACK[ns]) # {}


(***************************************************************************)
(* The store only grows                                                    *)
(***************************************************************************)
Prefix(a, b) == Len(a) <= Len(b) /\ SubSeq(b, 1, Len(a)) = a

\* every record of old is a record of new with the same payload
PayloadsKept(old, new) ==
    /\ DOMAIN old \subseteq DOMAIN new
    /\ \A id \in DOMAIN old : new[id].data = old[id].data
\* ... and with the same display name
NamesKept(old, new) ==
    \A id \in DOMAIN old \cap DOMAIN new : new[id].name = old[id].name
\* every list of old is continued in new
ListsKept(old, new) ==
    /\ DOMAIN old \subseteq DOMAIN new
    /\ \A g \in DOMAIN old : Prefix(old[g], new[g])

StoreGrows(old, new, renamed) ==
    /\ \A c \in Classes :
         /\ PayloadsKept(old.PRESETS[c].INFO, new.PRESETS[c].INFO)
         /\ PayloadsKept(old.PRESETS[c].DATA, new.PRESETS[c].DATA)
         /\ PayloadsKept(old.PRESETS[c].TRANSACTIONS, new.PRESETS[c].TRANSACTIONS)
         /\ ListsKept(old.PRESETS[c].FULL, new.PRESETS[c].FULL)
         /\ ListsKept(old.PRESETS[c].VALUES, new.PRESETS[c].VALUES)
         /\ NamesKept(old.PRESETS[c].INFO, new.PRESETS[c].INFO)
         /\ NamesKept(old.PRESETS[c].DATA, new.PRESETS[c].DATA)
         /\ renamed \/ NamesKept(old.PRESETS[c].TRANSACTIONS, new.PRESETS[c].TRANSACTIONS)
    /\ PayloadsKept(old.MODIFIER_STACK, new.MODIFIER_STACK)
    /\ PayloadsKept(old.NODES, new.NODES)
    /\ \A id \in DOMAIN old.NODES : new.NODES[id].type = old.NODES[id].type
    /\ PayloadsKept(old.NODE_STACK, new.NODE_STACK)
    /\ ListsKept(old.KIND, new.KIND)
    /\ \A p \in PhysicsTypes : PayloadsKept(old.PHYSICS[p], new.PHYSICS[p])
    /\ PayloadsKept(old.POINTS, new.POINTS)
    /\ PayloadsKept(old.SIZES, new.SIZES)
    /\ renamed \/ /\ NamesKept(old.MODIFIER_STACK, new.MODIFIER_STACK)
                  /\ NamesKept(old.NODES, new.NODES)
                  /\ \A p \in PhysicsTypes : NamesKept(old.PHYSICS[p], new.PHYSICS[p])
                  /\ NamesKept(old.POINTS, new.POINTS)

\* C16: across save, import and rename operations no record is removed from a
\* table and no payload of an existing record changes; a step adds records,
\* appends ids to the link and kind lists, or, when it is a rename, changes a
\* display name
C16_AppendOnly ==
    [][/\ StoreGrows(archive, archive', Len(log') = Len(log) + 1 /\ Last'.op = "rename")
       /\ StoreGrows(other, other', FALSE)]_vars

\* C16 witness: a store with two presets of one graph, one of them renamed
\* after the other was saved
C16_Witness ==
    /\ Len(log) = 3 /\ log[3].op = "rename" /\ log[3].changed
    /\ log[1].changed /\ log[2].changed
    /\ \E c \in Classes : \E g \in DOMAIN archive.PRESETS[c].FULL :
          Len(archive.PRESETS[c].FULL[g]) = 2


(***************************************************************************)
(* Reuse of a ValuesRecord                                                 *)
(***************************************************************************)
\* values_id of the save that wrote the log entry, as the save function
\* computes it from the scene
SavedValuesId(entry) ==
    IF entry.op = "save_mat"
    THEN hash_list(format_mat_node_data(
             Material(entry.input.topo, entry.input.rough, entry.input.color)))
    ELSE ValuesIdOf(entry.input)

DataOf(file, op) == file.PRESETS[ClassOf(op)].DATA

\* C17: a save whose values payload hashes to an id that is in DATA of its
\* class creates no second ValuesRecord and leaves the payload and the
\* display name of the existing one as they were, whatever name is proposed;
\* the triple of the transaction it creates holds that id
C17_ValuesRecordReused ==
    [][(/\ Len(log') = Len(log) + 1
        /\ Last'.op \in GraphSaves
        /\ SavedValuesId(Last') \in DOMAIN DataOf(archive, Last'.op))
       => /\ DataOf(archive', Last'.op) = DataOf(archive, Last'.op)
          /\ Last'.data.preset_saved =>
                TransactionsOf(archive', Last'.op)[Last'.data.id].data[2]
                    = SavedValuesId(Last')]_vars

\* C17 witness: the second save created a transaction under another name
\* with the ValuesRecord of the first, which kept the name of the first
C17_Witness ==
    /\ Len(log) = 2
    /\ log[1].op \in GraphSaves /\ log[2].op = log[1].op
    /\ log[1].data.preset_saved /\ log[2].data.preset_saved
    /\ log[1].name # log[2].name
    /\ SavedValuesId(log[1]) = SavedValuesId(log[2])
    /\ TripleOf(2)[2] = SavedValuesId(log[2])
    /\ DataOf(archive, log[2].op)[SavedValuesId(log[2])].name = log[1].name


\* a step of HAIRFACTORY_OT_load_node_group
LoadsNodeGroup == Len(log') = Len(log) + 1 /\ Last'.op = "load_node_group"

\* the modifier a load step works on, before and after the step
LoadedModifier(ob, entry) == ob.modifiers[entry.input.scene.active]

\* the flat values and the sub-states stored under a preset
StoredValues(file, id_) ==
    file.PRESETS["GEOMETRY_NODES"].DATA[
        file.PRESETS["GEOMETRY_NODES"].TRANSACTIONS[id_].data[2]].data
StoredNodes(file, id_) ==
    NodeData(file,
             file.PRESETS["GEOMETRY_NODES"].INFO[
                 file.PRESETS["GEOMETRY_NODES"].TRANSACTIONS[id_].data[1]].data,
             file.NODE_STACK[file.PRESETS["GEOMETRY_NODES"].TRANSACTIONS[id_].data[3]].data,
             1, 1).ndata

\* every special node of the node group holds the sub-state stored for it
HoldsStoredNodes(node_group, stored) ==
    \A k \in DOMAIN stored :
        loads_dumps(get_nodes_func(stored[k].node_type,
                                   NodeAtAddress(node_group, stored[k].addr)))
            = stored[k].data

\* the modifier holds every stored flat value, its other properties as before
HoldsStoredValues(before, after, stored) ==
    /\ Keys(after) = Keys(before) \cup Keys(stored)
    /\ \A key \in Keys(after) :
          GetV(after, key) = IF HasKey(stored, key) THEN GetV(stored, key)
                             ELSE GetV(before, key)

\* C18: loading a geometry-node preset applies the stored flat values; with
\* load type NODE_GROUP the node group, and so every special node, is left
\* as it was; with load type FULL every special node takes the sub-state
\* stored for it, so that the sub-state of the special nodes changes only
\* under FULL.
C18_LoadTypeFrame ==
    [][LoadsNodeGroup =>
         LET before == LoadedModifier(scene, Last')
             after == LoadedModifier(scene', Last')
         IN /\ HoldsStoredValues(before.values, after.values,
                                 StoredValues(archive, Last'.input.id))
            /\ before.load_type = "NODE_GROUP" => after.node_group = before.node_group
            /\ before.load_type = "FULL" =>
                   HoldsStoredNodes(after.node_group, StoredNodes(archive, Last'.input.id))
            /\ after.node_group # before.node_group => before.load_type = "FULL"
            /\ \A k \in DOMAIN scene.modifiers :
                   k # scene.active => scene'.modifiers[k] = scene.modifiers[k]]_vars

\* a preset was loaded with load type NODE_GROUP onto a node group whose
\* float curve differs from the stored one, and the flat values changed
C18_Witness ==
    /\ Len(log) > 0 /\ Last.op = "load_node_group" /\ Last.exc = ""
    /\ LoadedModifier(Last.input.scene, Last).load_type = "NODE_GROUP"
    /\ ~HoldsStoredNodes(LoadedModifier(scene, Last).node_group,
                         StoredNodes(archive, Last.input.id))
    /\ LoadedModifier(scene, Last).values # LoadedModifier(Last.input.scene, Last).values


\* a step of HAIRFACTORY_OT_load_mod_stack
LoadsModStack == Len(log') = Len(log) + 1 /\ Last'.op = "load_mod_stack"

\* the modifier holds the preset: the node group of the preset's graph, the
\* stored flat values and the stored sub-states
HoldsPreset(file, modifier, id_) ==
    /\ file.PRESETS["GEOMETRY_NODES"].TRANSACTIONS[id_].data[1]
         = hash_dict(get_all_nodes(modifier.node_group))
    /\ HoldsStoredValues(NewValues, modifier.values, StoredValues(file, id_))
    /\ HoldsStoredNodes(modifier.node_group, StoredNodes(file, id_))

\* the stack presets of the store keep the ids of their layers under the
\* digest of the ordered list, and the stack preset that a save returned
\* lists the presets of the saved modifiers from the first to the last
StacksInModifierOrder ==
    /\ \A id_ \in DOMAIN archive.MODIFIER_STACK :
          id_ = hash_list(PyList([k \in DOMAIN archive.MODIFIER_STACK[id_].data |->
                                     PyStr(archive.MODIFIER_STACK[id_].data[k])]))
    /\ \A i \in DOMAIN log :
          log[i].op = "save_mod_stack" /\ log[i].data.preset_saved =>
              LET members == archive.MODIFIER_STACK[log[i].data.id].data
                  mods == log[i].input.scene.modifiers
              IN /\ Len(members) = Len(mods)
                 /\ \A k \in DOMAIN mods :
                       archive.PRESETS["GEOMETRY_NODES"].TRANSACTIONS[members[k]].data[1]
                           = hash_dict(get_all_nodes(mods[k].node_group))

\* two stack presets with the same layers in another order have two ids
OrderMakesId ==
    \A a, b \in DOMAIN archive.MODIFIER_STACK :
        archive.MODIFIER_STACK[a].data # archive.MODIFIER_STACK[b].data => a # b

\* the load added one modifier per member, in the stored order, each
\* holding its preset
AppliedInStoredOrder(before, after, members) ==
    /\ Len(after.modifiers) = Len(before.modifiers) + Len(members)
    /\ \A k \in DOMAIN before.modifiers : after.modifiers[k] = before.modifiers[k]
    /\ \A k \in DOMAIN members :
          HoldsPreset(archive, after.modifiers[Len(before.modifiers) + k], members[k])

\* C19: a stack preset holds the preset ids of its layers in modifier order
\* under hash_list of that ordered list, so that the same layers in another
\* order get another id, and loading a stack preset applies its members one
\* by one in the stored order.
C19_StackOrder ==
    /\ [](StacksInModifierOrder /\ OrderMakesId)
    /\ [][LoadsModStack =>
            AppliedInStoredOrder(scene, scene',
                                 archive.MODIFIER_STACK[Last'.input.id].data)]_vars


\* the mutations that reading the inner entry back from the archive yields:
\* none when the archive or the extracted file cannot be read
ReadBack(zf) ==
    IF zf.readable /\ zf.entries # <<>> /\ IsWholeFile(ExtractedBytes(zf).bytes)
    THEN ExtractedBytes(zf).bytes[1].tags
    ELSE {}

\* every invocation has returned, each ran with no other invocation active
RanSerially ==
    \A p \in 1..MaxCalls : calls[p].pc = "done" /\ calls[p].alone

\* C20: the invocations of modify_in_zip on one archive extract to the one
\* path extract_dir/file_name; when they ran one after the other and each
\* returned its data, the archive holds the mutation of each of them.  (That
\* invocations which overlap lose a mutation or fail on the removed file is
\* the reachability of LostMutation and RemovedByOther.)
C20_SerialHoldsBoth ==
    (RanSerially /\ \A p \in 1..MaxCalls : calls[p].returned = "data")
        => (1..MaxCalls) \subseteq ReadBack(zipdisk)

\* invocations overlapped, one of them returned its data, and the archive
\* that all of them left can be read and lacks the mutation of that one
LostMutation ==
    /\ \A p \in 1..MaxCalls : calls[p].pc = "done"
    /\ zipdisk.readable /\ IsWholeFile(zipdisk.entries)
    /\ \E p \in 1..MaxCalls :
          /\ ~calls[p].alone /\ calls[p].returned = "data"
          /\ p \notin ReadBack(zipdisk)

\* an invocation failed on the extracted file that another one had removed
RemovedByOther ==
    \E p \in 1..MaxCalls :
        /\ calls[p].pc = "done" /\ ~calls[p].alone
        /\ calls[p].exc = "FileNotFoundError"


\* C21: when an invocation of modify_in_zip that ran alone returns its data,
\* reading the inner entry back from the archive yields the bytes of the
\* mutated file that the invocation recompressed, whatever its length in
\* chunks.
C21_ReadBackIsMutatedFile ==
    [][\A p \in 1..MaxCalls :
          (Returns(p) /\ calls'[p].returned = "data" /\ calls'[p].alone)
              => /\ zipdisk'.readable
                 /\ zipdisk'.entries # <<>>
                 /\ ExtractedBytes(zipdisk') = extract_file]_vars


\* the two lists have the same length and, place by place, equal elements
\* (mappings compare by their key/value pairs)
SameElements(x, y) ==
    /\ Len(x.v) = Len(y.v)
    /\ \A i \in DOMAIN x.v : PyEq(x.v[i], y.v[i])

\* C22: hash_list returns the same digest for two lists whose elements are
\* mappings with equal key/value pairs inserted in different orders, so that
\* the id of a material ValuesRecord does not depend on insertion order.
C22_ListDigestOrderFree ==
    (hout # <<>> /\ hout[1] = "hash_list" /\ SameElements(hin[1], hin[2]))
        => hout[2] = hout[3]


\* the links of the two graphs join, one by one, the same pairs of nodes
SameNodePairs(g, h) ==
    /\ Len(g.links) = Len(h.links)
    /\ \A k \in DOMAIN g.links :
          /\ g.links[k].from_node = h.links[k].from_node
          /\ g.links[k].to_node = h.links[k].to_node

\* C23: two graphs with the same nodes whose links join the same pairs of
\* nodes through different from-sockets or to-sockets get different
\* GraphIdentity ids.
C23_SocketsInSignature ==
    (/\ hout # <<>> /\ hout[1] = "get_all_nodes"
     /\ hin[1].v.nodes = hin[2].v.nodes
     /\ SameNodePairs(hin[1].v, hin[2].v)
     /\ hin[1].v.links # hin[2].v.links)
        => hout[2] # hout[3]


\* the saves of the log that stored or found the preset id_
SavesOf(id_) ==
    {i \in DOMAIN log : /\ log[i].op = "save_node_group" /\ log[i].exc = ""
                        /\ log[i].data.id = id_}

\* the exposed sockets whose values a preset keeps
RecordedSockets(node_group) ==
    {node_group.items[i].identifier : i \in
        {j \in DOMAIN node_group.items : node_group.items[j].socket_type \notin ignore_sockets}}

\* C24: after a geometry-node preset was saved in state S and the exposed
\* socket values of the modifier were changed, loading the preset gives
\* every exposed socket its value of S again, also a socket whose value in S
\* is 0, False or an empty string.
C24_LoadRestoresValues ==
    [][LoadsNodeGroup =>
         \A i \in SavesOf(Last'.input.id) :
             LET saved == log[i].input.scene.modifiers[log[i].input.scene.active]
                 after == LoadedModifier(scene', Last')
             IN \A sock \in RecordedSockets(saved.node_group) :
                    GetV(after.values, sock) = GetV(saved.values, sock)]_vars


\* a step of HAIRFACTORY_OT_load_mat
LoadsMat == Len(log') = Len(log) + 1 /\ Last'.op = "load_mat"

\* the material saves of the log that stored or found the preset id_
MatSavesOf(id_) ==
    {i \in DOMAIN log : log[i].op = "save_mat" /\ log[i].exc = "" /\ log[i].data.id = id_}

\* C25: loading a material preset that was saved from a material with an
\* ordinary node completes, and the attributes and unlinked inputs of the
\* nodes of the live material are the stored ones afterwards: the records
\* written at save carry every field that the load reads.
C25_MaterialLoadCompletes ==
    [][LoadsMat =>
         /\ Last'.exc = ""
         /\ \A i \in MatSavesOf(Last'.input.id) :
               format_mat_node_data(scene'.material)
                   = format_mat_node_data(log[i].input.scene.material)]_vars


(***************************************************************************)
(* StackPortSpec: modifier stacks are saved in installation A, exported    *)
(* and imported into A or into the empty store of installation B.          *)
(***************************************************************************)
\* the stacks saved: one holds the same layer at both positions
PortStacks == {<<"Plain", "Plain">>, <<"Plain", "Clump">>}

StackPortSave ==
    \E stack \in PortStacks, name \in Names :
        Call(MaxPortOps, "save_mod_stack", stack, name,
             modifier_stack_preset_processing(archive, StackObject(stack), name, FALSE))

StackPortNext ==
    \/ StackPortSave
    \/ Export
    \/ Import

StackPortSpec == Init /\ [][StackPortNext]_vars

\* the member lists of the stack records of a store hash to the record ids
MembersMakeId(file) ==
    \A i \in DOMAIN file.MODIFIER_STACK :
        hash_list(PyList([k \in DOMAIN file.MODIFIER_STACK[i].data |->
                             PyStr(file.MODIFIER_STACK[i].data[k])])) = i

\* the stack documents on disk whose import into B has committed
ImportedStacks ==
    {d \in docs : /\ d.META.TYPE = "Modifier_Stack"
                  /\ d.DATA.id \in DOMAIN other.MODIFIER_STACK}

\* C26: a stack document imported into the empty store recreates the record
\* of the exporting store with the same id and the same ordered member list,
\* and the member list of every stack record hashes to the id of the record
C26_StackRoundTrip ==
    /\ MembersMakeId(archive)
    /\ MembersMakeId(other)
    /\ \A d \in ImportedStacks :
          d.DATA.id \in DOMAIN archive.MODIFIER_STACK
             => other.MODIFIER_STACK[d.DATA.id].data = archive.MODIFIER_STACK[d.DATA.id].data


\* C27: a rename operator of the cloth, soft-body or collision presets run
\* with a name that no record of its table has gives the selected record of
\* that /PHYSICS table the new display name
C27_PhysicsRenamed ==
    [][(/\ Len(log') = Len(log) + 1
        /\ Last'.op = "rename"
        /\ Last'.input.table \in PhysicsTables
        /\ Last'.name \notin get_names(TableAt(archive, Last'.input.table)))
       => TableAt(archive', Last'.input.table)[Last'.input.id].name = Last'.name]_vars


\* the positions (from 0) of the GROUP nodes of a tree that hold the tree
\* with the given key
GroupsHolding(node_tree, key) ==
    {g \in 0..(Len(node_tree.nodes) - 1) :
        /\ At(node_tree.nodes, g).type = "GROUP"
        /\ At(node_tree.nodes, g).node_tree.key = key}

\* the index path from the root graph to the node <<key of its tree, index>>
IndexPath(node_tree, node) ==
    IF node[1] = node_tree.key THEN <<node[2]>>
    ELSE <<CHOOSE g \in GroupsHolding(node_tree, node[1]) : TRUE, node[2]>>

\* the node <<key of its tree, index>> itself
GivenNode(node_tree, node) ==
    IF node[1] = node_tree.key THEN At(node_tree.nodes, node[2])
    ELSE At(At(node_tree.nodes, IndexPath(node_tree, node)[1]).node_tree.nodes, node[2])

\* the single-node saves of a node that lies inside a group node
NestedSaves ==
    {i \in DOMAIN log : /\ log[i].op = "save_node"
                        /\ log[i].input.node[1]
                             # NodeGroup(log[i].input.topo, log[i].input.curve).key}

\* C28: the address computed for a node inside a nested group is the index
\* path from the root graph through the group node to that node, and the
\* first save of such a node stores the sub-state of that node
C28_NestedAddress ==
    \A i \in NestedSaves :
        LET node_tree == NodeGroup(log[i].input.topo, log[i].input.curve)
            node == log[i].input.node
        IN /\ match_node_structure_gen(node, node_tree, <<>>)[1].index
                 = IndexPath(node_tree, node)
           /\ (\A j \in 1..(i - 1) : log[j].op # "save_node")
                 => /\ log[i].exc = ""
                    /\ ~log[i].none
                    /\ log[i].data.id = hash_dict(get_nodes_func(GivenNode(node_tree, node).type,
                                                                 GivenNode(node_tree, node)))


(***************************************************************************)
(* ElementsSpec: a stored colour-ramp or float-curve payload is applied to *)
(* a node that holds another number of stops or points.                    *)
(***************************************************************************)
MaxElements == 6        \* stops of a colour ramp, points of a float curve

\* a colour ramp with n stops and a float curve with n points
RampOf(n, gray) ==
    Special("VALTORGB", "Color Ramp",
            [RampState(1) EXCEPT !.elements =
                [i \in 1..n |-> [color |-> <<gray, gray, gray, "1.0">>,
                                 position |-> "0." \o ToString(i)]]])
CurveOf(n, handle) ==
    Special("CURVE_FLOAT", "Float Curve",
            [FloatCurveState(1) EXCEPT !.points =
                [i \in 1..n |-> [location |-> <<"0." \o ToString(i), "0." \o ToString(i)>>,
                                 handle_type |-> handle]]])

\* the node holds n elements, the payload was read from a node with k; a
\* colour ramp has one stop or more, a curve two points or more
ElementsInit ==
    /\ archive = FreshStore
    /\ other = FreshStore
    /\ log = <<>>
    /\ docs = {}
    /\ \/ \E n \in 1..MaxElements, k \in 1..MaxElements :
             hin = <<RampOf(n, "0.0"), loads_dumps(get_color_ramp_data(RampOf(k, "0.5")))>>
       \/ \E n \in 2..MaxElements, k \in 2..MaxElements :
             hin = <<CurveOf(n, "AUTO"), loads_dumps(get_float_curve_data(CurveOf(k, "VECTOR")))>>
    /\ hout = <<>>
    /\ ZipInit
    /\ scene = FreshScene
    /\ addon = SetUpAddon

ApplyRamp ==
    /\ hout = <<>>
    /\ hin[1].type = "VALTORGB"
    /\ hout' = <<set_color_ramp_data(hin[1], hin[2])>>
    /\ UNCHANGED <<archive, other, log, docs, hin>> /\ UNCHANGED <<zipvars, scene, addon>>

ApplyCurve ==
    /\ hout = <<>>
    /\ hin[1].type = "CURVE_FLOAT"
    /\ hout' = <<set_float_curve_data(hin[1], hin[2])>>
    /\ UNCHANGED <<archive, other, log, docs, hin>> /\ UNCHANGED <<zipvars, scene, addon>>

ElementsNext ==
    \/ ApplyRamp
    \/ ApplyCurve

ElementsSpec == ElementsInit /\ [][ElementsNext]_vars

\* the number of stops or points of a node, and of a stored payload
Holds(node) ==
    IF node.type = "VALTORGB" THEN Len(node.state.elements) ELSE Len(node.state.points)
Stores(data) ==
    IF HasKey(data, "position") THEN Len(GetV(data, "position").v)
    ELSE Len(GetV(data, "handle_type").v)

\* C29: a payload of k stops or points applied to a node that holds n
\* elements is applied without an exception and leaves the node with k
\* elements
C29_ElementsResized ==
    hout # <<>> => /\ hout[1].exc = ""
                   /\ Holds(hout[1].node) = Stores(hin[2])


(***************************************************************************)
(* AddonSpec: the preset folder is set up and deleted through the add-on   *)
(* preferences, and presets are saved in between.                          *)
(***************************************************************************)
MaxAddonOps == 3        \* operators run in one run of AddonSpec

\* hair_factory_utils.do_presets_exists
do_presets_exists(files) == Archives \subseteq files

\* hair_factory_utils.init_preset: every archive that is no file is created
init_preset(files) == files \cup Archives

\* hair_factory_utils.remove_preset: the archives are unlinked in this order
\* inside one try block; the unlink number fails raises (the file is missing
\* or cannot be removed) and ends the block, 4 when none raises
RemoveOrder == <<"Presets.zip", "User_Materials.zip", "User_Geo_Nodes.zip">>
remove_preset(files, fails) ==
    LET missing == {i \in 1..3 : RemoveOrder[i] \notin files}
        stop == IF \E i \in missing : i < fails
                THEN CHOOSE i \in missing : \A j \in missing : i <= j
                ELSE fails
    IN files \ {RemoveOrder[i] : i \in 1..(stop - 1)}

\* the archives in the folder of preset_path
PresetFolder(a) == a.disk[a.preset_path]

\* OBJECT_OT_hf_add_presets.poll, OBJECT_OT_hf_delete_presets.poll and the
\* poll of the save operators
AddPoll(a) == (a.pip_installed \/ ~a.missing) /\ ~a.is_preset_path_set
DeletePoll(a) == a.is_preset_path_set /\ do_presets_exists(PresetFolder(a))
SavePoll(a) == a.is_preset_path_set

\* the add-on as register() leaves it in a new installation: the wheels were
\* installed or not, the default preset folder may hold archives of an
\* earlier installation, the other folder may be read-only
AddonInit ==
    /\ archive = FreshStore
    /\ other = FreshStore
    /\ log = <<>>
    /\ docs = {}
    /\ hin = <<>>
    /\ hout = <<>>
    /\ ZipInit
    /\ scene = FreshScene
    /\ \E pip_installed \in BOOLEAN, missing \in BOOLEAN, files \in SUBSET Archives,
          writable \in {{"Documents"}, Folders} :
          addon = [preset_path |-> "Documents", is_preset_path_set |-> FALSE,
                   pip_installed |-> pip_installed, missing |-> missing,
                   disk |-> [f \in Folders |-> IF f = "Documents" THEN files ELSE {}],
                   writable |-> writable]

\* an operator of the add-on has run: the log gets its name and what it met
AddonCall(op, result, missing_archive, a) ==
    /\ Len(log) < MaxAddonOps
    /\ addon' = a
    /\ log' = Append(log, [op |-> op, result |-> result, missing_archive |-> missing_archive])
    /\ UNCHANGED <<archive, other, docs, hin, hout, zipvars, scene>>

\* the property preset_path is drawn while is_preset_path_set is false
SetPresetPath ==
    \E f \in Folders :
        /\ ~addon.is_preset_path_set
        /\ f # addon.preset_path
        /\ AddonCall("preset_path", "FINISHED", FALSE, [addon EXCEPT !.preset_path = f])

\* Set Up Preset
AddPresets ==
    /\ AddPoll(addon)
    /\ IF addon.preset_path \notin addon.writable
       THEN AddonCall("hf_add_presets", "CANCELLED", FALSE, addon)
       ELSE AddonCall("hf_add_presets", "FINISHED", FALSE,
                      [addon EXCEPT !.disk[addon.preset_path] = init_preset(@),
                                    !.is_preset_path_set = TRUE])

\* Delete Preset
DeletePresets ==
    \E fails \in 1..4 :
        /\ DeletePoll(addon)
        /\ AddonCall("hf_delete_presets", "FINISHED", FALSE,
                     [addon EXCEPT !.disk[addon.preset_path] = remove_preset(@, fails)])

\* a save operator: modify_in_zip opens Presets.zip of the preset folder
AddonSave ==
    /\ SavePoll(addon)
    /\ AddonCall("save", "FINISHED", "Presets.zip" \notin PresetFolder(addon), addon)

AddonNext ==
    \/ SetPresetPath
    \/ AddPresets
    \/ DeletePresets
    \/ AddonSave

AddonSpec == AddonInit /\ [][AddonNext]_vars

\* Delete Preset has just removed archives
DeleteRemoved ==
    /\ Len(log') = Len(log) + 1
    /\ Last'.op = "hf_delete_presets"
    /\ PresetFolder(addon') # PresetFolder(addon)

\* C30: while is_preset_path_set is true the archives of the preset folder
\* exist and no save operator has run against a missing archive, and when
\* Delete Preset has removed archives the poll of Set Up Preset is true
C30_FlagMeansArchives ==
    /\ [](/\ addon.is_preset_path_set => do_presets_exists(PresetFolder(addon))
          /\ \A i \in DOMAIN log : log[i].op = "save" => ~log[i].missing_archive)
    /\ [][DeleteRemoved => AddPoll(addon')]_vars
====
